---- MODULE Spec2Model ----
(***************************************************************************)
(* CandidateHire: retrieval (RAG) pipeline, response cache, index build,   *)
(* resume processing and batch ranking, modelled from src/app.             *)
(*                                                                         *)
(* Texts are sequences of symbols; concatenation of strings is \o.  The    *)
(* symbol "Error:" stands for the six characters an error chunk starts     *)
(* with, so  text.startswith("Error:")  is  StartsWithError(text).         *)
(***************************************************************************)
EXTENDS Integers, Sequences, FiniteSets, TLC

\* ---------------------------------------------------------------- bounds
NFiles == 2            \* input resumes of the collection are 1..NFiles
MaxChunks == 2         \* longest LLM answer, in chunks
MaxTime == 3           \* the clock stops at MaxTime ticks
TicksPerHour == 2      \* clock resolution
NRaw == 3              \* a processing run has at most NRaw input files
MaxRuns == 2           \* rank_collection is called at most MaxRuns times
NProfiles == 3         \* profiles of a collection that is scored or searched
Precision == 6         \* scores are integers in units of 10^-Precision
DistScale == 100       \* distances are integers in units of 1/DistScale

\* ------------------------------------------------------ program constants
TTL_HOURS == 1         \* timedelta(hours=1)
MAX_WAIT == 20         \* wait_count < 20
DECIMALS == 4          \* round(..., 4)
W_TFIDF == 7           \* w_tfidf = 0.7, in tenths
W_SKILL == 3           \* w_skill = 0.3, in tenths
SHORTLIST == 50        \* search_index(..., k=50)
NO_RANK == 999         \* rank of a profile without prior ranking
W_FAISS_RANKED == 4    \* 0.4 * faiss_similarity, in tenths
W_RANKING == 3         \* 0.3 * ranking_score
W_SKILL_RANKED == 3    \* 0.3 * skill_score
W_FAISS == 6           \* 0.6 * faiss_similarity
W_SKILL_ONLY == 4      \* 0.4 * skill_score

TTL == TTL_HOURS * TicksPerHour

Files == 1..NFiles
TaskOrder == <<"t1", "t2">>             \* uuid4 task ids, in submission order
Tasks == {TaskOrder[i] : i \in DOMAIN TaskOrder}
Queries == {"q1", "q2"}
RequiredChoices == {{}, {"rust"}}       \* filters.required_skills

\* the answer of the LLM to a prompt, chunk by chunk; it may stop after any
\* prefix of it
ChunkNames == <<"c1", "c2", "c3", "c4">>
NthChunk(i) == <<ChunkNames[i]>>

\* skills found in the processed text of each resume (input data)
SkillsOf(f) == IF f % 2 = 1 THEN {"python"} ELSE {"python", "sql"}

VARIABLES
    now,            \* datetime.now(UTC), in ticks
    cache,          \* rag/cache/: query_hash -> [cached_at, response]
    getResult,      \* last value returned by get_cached_response
    processed,      \* processed/*.txt of the collection
    meta,           \* collection_meta.json
    index_dir,      \* rag/index/: file name -> content
    builder,        \* a build_rag_index run of another server process
    active_tasks,   \* _active_tasks: task_id -> [status, queue]
    rq,             \* frames of _run_rag_query / process_rag_query
    consumer,       \* frames of stream_rag_response.event_generator
    proc,           \* a process_collection run
    rank,           \* a rank_collection run and the files it writes
    batch,          \* the scoring, sorting and top_k of a rank_collection run
    retr,           \* a retrieve_candidates call
    other_cache     \* rag/cache/ of a second collection

vars == <<now, cache, getResult, processed, meta, index_dir, builder,
          active_tasks, rq, consumer, proc, rank, batch, retr, other_cache>>

\* ------------------------------------------------------------- utilities
None == <<"None">>                      \* Python None (also queue.put(None))

StartsWithError(text) == Len(text) > 0 /\ text[1] = "Error:"

ErrorChunk(msg) == <<"Error:", msg>>

RECURSIVE Concat(_)
Concat(chunks) ==
    IF chunks = <<>> THEN <<>> ELSE Head(chunks) \o Concat(Tail(chunks))

\* sorted(processed_dir.glob("*.txt")) as a sequence
RECURSIVE SortedFrom(_, _)
SortedFrom(S, f) ==
    IF f > NFiles THEN <<>>
    ELSE IF f \in S THEN <<f>> \o SortedFrom(S, f + 1)
    ELSE SortedFrom(S, f + 1)

sorted(S) == SortedFrom(S, 1)

Put(d, k, v) == [x \in DOMAIN d \cup {k} |-> IF x = k THEN v ELSE d[x]]
Unlink(d, k) == [x \in DOMAIN d \ {k} |-> d[x]]

\* ------------------------------------------------------- response cache
hash_query(query) == IF query = "q1" THEN "h1" ELSE "h2"

Fingerprints == {hash_query(q) : q \in Queries}

Texts == {<<>>, <<"c1">>, <<"c2">>, <<"c1", "c2">>}

\* the entry is expired when  now - cached_at > timedelta(hours=1)
Expired(entry, t) == t - entry.cached_at > TTL

\* a slip: every query text is looked up under the same name
get_first_cached(c, query_hash, t) ==
    IF DOMAIN c = {} THEN <<None, c>>
    ELSE <<c[CHOOSE h \in DOMAIN c : TRUE].response, c>>

\* get_cached_response: the pair <<returned value, cache directory after>>
get_cached_response(c, query_hash, t) ==
    IF query_hash \notin DOMAIN c THEN <<None, c>>
    ELSE IF Expired(c[query_hash], t) THEN <<None, Unlink(c, query_hash)>>
    ELSE <<c[query_hash].response, c>>

save_cached_response(c, query_hash, response, t) ==
    Put(c, query_hash, [cached_at |-> t, response |-> response])

\* ---------------------------------------------------------- file system
INDEX == "faiss_index.index"
MAPPING == "resume_mapping.json"
INDEX_META == "index_meta.json"
EMBEDDINGS == "embeddings.npy"

is_phase2_complete(m) == m.processing_status = "completed"

\* a slip: the lazy build is never taken
IndexAssumedBuilt(d) == TRUE

is_index_built(d) == INDEX \in DOMAIN d

\* ------------------------------------------------------ candidate search
\* search_index + the loop of retrieve_candidates: vector ids 0..ntotal-1,
\* a hit whose id is not in the mapping is skipped, the required_skills
\* filter keeps a resume whose skills intersect it.  A resume whose
\* processed text is missing has no skills.
resume_skills(f, procd) == IF f \in procd THEN SkillsOf(f) ELSE {}

\* a slip: the required_skills filter is not applied
retrieve_unfiltered(index, mapping, procd, required) ==
    {mapping[i] : i \in {j \in 1..Len(index) : j \in DOMAIN mapping}}

retrieve_candidates(index, mapping, procd, required) ==
    LET hits == {i \in 1..Len(index) : i \in DOMAIN mapping}
        keep(i) == required = {} \/ (required \cap resume_skills(mapping[i], procd)) # {}
    IN  {mapping[i] : i \in {j \in hits : keep(j)}}

\* ------------------------------------------------- _run_rag_query frames
IdleFrame ==
    [pc |-> "none", collection |-> "A", query |-> "q1", required |-> {},
     top_k |-> 5, include_context |-> TRUE, index |-> <<>>,
     mapping |-> <<>>, full_response |-> <<>>, llm |-> "idle", llm_sent |-> <<>>]

IdleConsumer == [pc |-> "none", wait_count |-> 0, chunk |-> <<>>, out |-> <<>>]

\* a slip: the completion signal is put in the except branch as well
CompleteTwice(at, t, chunks) ==
    [at EXCEPT ![t] = [status |-> "completed",
                       queue |-> @.queue \o chunks \o <<None, None>>]]

\* the generator yields `chunks`, each is put on the queue, the generator
\* returns, queue.put(None) and status = "completed" (lines 47-50)
Complete(at, t, chunks) ==
    [at EXCEPT ![t] = [status |-> "completed",
                       queue |-> @.queue \o chunks \o <<None>>]]

\* a slip: the answer is buffered and the chunk is not put on the queue
ForwardBuffered(at, t, chunk) == at

\* one yielded chunk is put on the queue (line 47)
Forward(at, t, chunk) ==
    [at EXCEPT ![t].queue = Append(@, chunk)]

\* the frame after process_rag_query returned: its locals are gone (the
\* collection, top_k and include_context of the request are kept)
Done(t) ==
    [rq EXCEPT ![t].pc = "done", ![t].query = "q1", ![t].required = {},
               ![t].index = <<>>, ![t].mapping = <<>>]

\* what build_index leaves in rag/index/ once all its writes are done
BuiltDir(d, files) ==
    Put(Put(Put(Put(d, INDEX, files), MAPPING, files),
            INDEX_META, [num_vectors |-> Len(files)]), EMBEDDINGS, files)

\* cache_path = rag_base / "cache", rag_base = <collection root> / "rag"
CacheOf(collection) == IF collection = "A" THEN cache ELSE other_cache

\* lines 285-288 of process_rag_query: cache the answer
CacheAfterStream(c, query, full_response, t) ==
    IF full_response # <<>> /\ ~StartsWithError(full_response)
    THEN save_cached_response(c, hash_query(query), full_response, t)
    ELSE c

\* ----------------------------------------------------------- SpecCache
CachePut(fp, text) ==
    /\ cache' = save_cached_response(cache, fp, text, now)
    /\ UNCHANGED <<now, getResult, processed, meta, index_dir, builder,
                   active_tasks, rq, consumer, proc, rank, batch, retr,
                   other_cache>>

CacheGet(fp) ==
    /\ getResult' = get_cached_response(cache, fp, now)[1]
    /\ cache' = get_cached_response(cache, fp, now)[2]
    /\ UNCHANGED <<now, processed, meta, index_dir, builder,
                   active_tasks, rq, consumer, proc, rank, batch, retr,
                   other_cache>>

Tick ==
    /\ now < MaxTime
    /\ now' = now + 1
    /\ UNCHANGED <<cache, getResult, processed, meta, index_dir, builder,
                   active_tasks, rq, consumer, proc, rank, batch, retr,
                   other_cache>>

\* ------------------------------------------------------------- SpecRag
\* process_collection seen from the retrieval side: the resumes in `ok`
\* are the ones whose text was extracted and registered in this run; their
\* .txt files are written (earlier ones are never deleted) and
\* processing_status becomes "completed".  The workers of a run are
\* modelled in SpecProc.
ProcessRun(ok) ==
    /\ processed' = processed \cup ok
    /\ meta' = [meta EXCEPT !.processing_status = "completed"]
    /\ UNCHANGED <<now, cache, getResult, index_dir, builder,
                   active_tasks, rq, consumer, proc, rank, batch, retr,
                   other_cache>>

\* build_rag_index run by another server process (POST rag/initialize):
\* lines 59-83, up to the embeddings; a ValueError ends the run
BuilderBegin ==
    /\ builder.pc = "idle"
    /\ is_phase2_complete(meta)
    /\ processed # {}
    /\ builder' = [pc |-> "w_index", files |-> sorted(processed)]
    /\ UNCHANGED <<now, cache, getResult, processed, meta, index_dir,
                   active_tasks, rq, consumer, proc, rank, batch, retr,
                   other_cache>>

\* build_index: faiss.write_index
BuilderWriteIndex ==
    /\ builder.pc = "w_index"
    /\ index_dir' = Put(index_dir, INDEX, builder.files)
    /\ builder' = [builder EXCEPT !.pc = "w_mapping"]
    /\ UNCHANGED <<now, cache, getResult, processed, meta,
                   active_tasks, rq, consumer, proc, rank, batch, retr,
                   other_cache>>

\* build_index: json.dump(resume_mapping)
BuilderWriteMapping ==
    /\ builder.pc = "w_mapping"
    /\ index_dir' = Put(index_dir, MAPPING, builder.files)
    /\ builder' = [builder EXCEPT !.pc = "w_meta"]
    /\ UNCHANGED <<now, cache, getResult, processed, meta,
                   active_tasks, rq, consumer, proc, rank, batch, retr,
                   other_cache>>

\* build_index: json.dump(metadata), then np.save(embeddings_backup)
BuilderWriteMeta ==
    /\ builder.pc = "w_meta"
    /\ index_dir' = Put(Put(index_dir, INDEX_META,
                            [num_vectors |-> Len(builder.files)]),
                        EMBEDDINGS, builder.files)
    /\ builder' = [pc |-> "idle", files |-> <<>>]
    /\ UNCHANGED <<now, cache, getResult, processed, meta,
                   active_tasks, rq, consumer, proc, rank, batch, retr,
                   other_cache>>

\* query_rag: a fresh task id (uuid4; the ids are numbered in the order of
\* submission), status "queued", an empty queue, and the background task
\* is scheduled
QueryRag(t, q, required) ==
    /\ t \notin DOMAIN active_tasks
    /\ t = TaskOrder[Cardinality(DOMAIN active_tasks) + 1]
    /\ active_tasks' = Put(active_tasks, t, [status |-> "queued", queue |-> <<>>])
    /\ rq' = [rq EXCEPT ![t] = [IdleFrame EXCEPT !.pc = "scheduled",
                                                 !.query = q,
                                                 !.required = required]]
    /\ UNCHANGED <<now, cache, getResult, processed, meta, index_dir,
                   builder, consumer, proc, rank, batch, retr, other_cache>>

\* query_rag for a request that names its collection, top_k and
\* include_context
QueryRagIn(t, collection, q, required, top_k, include_context) ==
    /\ t \notin DOMAIN active_tasks
    /\ t = TaskOrder[Cardinality(DOMAIN active_tasks) + 1]
    /\ active_tasks' = Put(active_tasks, t, [status |-> "queued", queue |-> <<>>])
    /\ rq' = [rq EXCEPT ![t] = [IdleFrame EXCEPT !.pc = "scheduled",
                                                 !.collection = collection,
                                                 !.query = q,
                                                 !.required = required,
                                                 !.top_k = top_k,
                                                 !.include_context = include_context]]
    /\ UNCHANGED <<now, cache, getResult, processed, meta, index_dir,
                   builder, consumer, proc, rank, batch, retr, other_cache>>

\* _run_rag_query starts: status = "processing" (line 37)
RunStart(t) ==
    /\ rq[t].pc = "scheduled"
    /\ active_tasks' = [active_tasks EXCEPT ![t].status = "processing"]
    /\ rq' = [rq EXCEPT ![t].pc = "prepare"]
    /\ UNCHANGED <<now, cache, getResult, processed, meta, index_dir,
                   builder, consumer, proc, rank, batch, retr, other_cache>>

\* process_rag_query lines 217-230: the Phase 2 check, and the lazy build
\* when faiss_index.index does not exist.  build_rag_index is synchronous
\* inside the event loop; its ValueError becomes an "Error: ..." chunk.
Prepare(t) ==
    /\ rq[t].pc = "prepare"
    /\ IF ~is_phase2_complete(meta)
       THEN /\ active_tasks' = Complete(active_tasks, t, <<ErrorChunk("phase2")>>)
            /\ rq' = Done(t)
            /\ UNCHANGED index_dir
       ELSE IF is_index_built(index_dir)
       THEN /\ rq' = [rq EXCEPT ![t].pc = "cache"]
            /\ UNCHANGED <<index_dir, active_tasks, batch, retr, other_cache>>
       ELSE IF processed = {}
       THEN /\ active_tasks' = Complete(active_tasks, t, <<ErrorChunk("no resumes")>>)
            /\ rq' = Done(t)
            /\ UNCHANGED index_dir
       ELSE /\ rq' = [rq EXCEPT ![t].pc = "cache"]
            /\ index_dir' = BuiltDir(index_dir, sorted(processed))
            /\ UNCHANGED active_tasks
    /\ UNCHANGED <<now, cache, getResult, processed, meta, builder,
                   consumer, proc, rank, batch, retr, other_cache>>

\* lines 232-239: a cached answer is yielded as one chunk
CheckCache(t) ==
    /\ rq[t].pc = "cache"
    /\ LET r == get_cached_response(CacheOf(rq[t].collection),
                                    hash_query(rq[t].query), now)
       IN  /\ cache' = IF rq[t].collection = "A" THEN r[2] ELSE cache
           /\ other_cache' = IF rq[t].collection = "A" THEN other_cache ELSE r[2]
           /\ IF r[1] # None /\ r[1] # <<>>
              THEN /\ active_tasks' = Complete(active_tasks, t, <<r[1]>>)
                   /\ rq' = Done(t)
              ELSE /\ rq' = [rq EXCEPT ![t].pc = "load_index"]
                   /\ UNCHANGED active_tasks
    /\ UNCHANGED <<now, getResult, processed, meta, index_dir, builder,
                   consumer, proc, rank, batch, retr>>

\* line 245: load_index (ValueError when the file is not there)
LoadIndex(t) ==
    /\ rq[t].pc = "load_index"
    /\ IF INDEX \notin DOMAIN index_dir
       THEN /\ active_tasks' = Complete(active_tasks, t, <<ErrorChunk("no index")>>)
            /\ rq' = Done(t)
       ELSE /\ rq' = [rq EXCEPT ![t].pc = "load_mapping",
                                ![t].index = index_dir[INDEX]]
            /\ UNCHANGED active_tasks
    /\ UNCHANGED <<now, cache, getResult, processed, meta, index_dir,
                   builder, consumer, proc, rank, batch, retr, other_cache>>

\* lines 246-266: load_resume_mapping (ValueError when the file is not
\* there), retrieve_candidates, and the "No candidates" answer
LoadMapping(t) ==
    /\ rq[t].pc = "load_mapping"
    /\ IF MAPPING \notin DOMAIN index_dir
       THEN /\ active_tasks' = Complete(active_tasks, t, <<ErrorChunk("no mapping")>>)
            /\ rq' = Done(t)
       ELSE IF retrieve_candidates(rq[t].index, index_dir[MAPPING],
                                   processed, rq[t].required) = {}
       THEN /\ active_tasks' = Complete(active_tasks, t, <<<<"No candidates">>>>)
            /\ rq' = Done(t)
       ELSE /\ rq' = [rq EXCEPT ![t].pc = "llm", ![t].llm = "streaming",
                                ![t].mapping = index_dir[MAPPING]]
            /\ UNCHANGED active_tasks
    /\ UNCHANGED <<now, cache, getResult, processed, meta, index_dir,
                   builder, consumer, proc, rank, batch, retr, other_cache>>

\* lines 282-284: the LLM yields a chunk; it is appended to full_response,
\* yielded and put on the queue before the next one is requested
StreamChunk(t) ==
    /\ rq[t].pc = "llm"
    /\ Len(rq[t].llm_sent) < MaxChunks
    /\ LET chunk == NthChunk(Len(rq[t].llm_sent) + 1)
       IN  /\ rq' = [rq EXCEPT ![t].llm_sent = Append(@, chunk),
                               ![t].full_response = @ \o chunk]
           /\ active_tasks' = Forward(active_tasks, t, chunk)
    /\ UNCHANGED <<now, cache, getResult, processed, meta, index_dir,
                   builder, consumer, proc, rank, batch, retr, other_cache>>

\* stream_llm_response lines 91-98: the LLM call raises (before the first
\* chunk or in mid-stream); one "Error: ..." chunk is yielded and the
\* stream ends; then lines 286-288 and the end of _run_rag_query
StreamError(t) ==
    /\ rq[t].pc = "llm"
    /\ LET chunk == ErrorChunk("llm")
           full == rq[t].full_response \o chunk
       IN  /\ rq' = [Done(t) EXCEPT ![t].llm = "failed",
                                    ![t].llm_sent = Append(@, chunk),
                                    ![t].full_response = full]
           /\ cache' = IF rq[t].collection = "A"
                       THEN CacheAfterStream(cache, rq[t].query, full, now)
                       ELSE cache
           /\ other_cache' = IF rq[t].collection = "A" THEN other_cache
                             ELSE CacheAfterStream(other_cache, rq[t].query, full, now)
           /\ active_tasks' = Complete(active_tasks, t, <<chunk>>)
    /\ UNCHANGED <<now, getResult, processed, meta, index_dir,
                   builder, consumer, proc, rank, batch, retr>>

\* the LLM stream ends normally; lines 286-288 and the end of _run_rag_query
StreamEnd(t) ==
    /\ rq[t].pc = "llm"
    /\ rq' = [Done(t) EXCEPT ![t].llm = "ended"]
    /\ cache' = IF rq[t].collection = "A"
                THEN CacheAfterStream(cache, rq[t].query, rq[t].full_response, now)
                ELSE cache
    /\ other_cache' = IF rq[t].collection = "A" THEN other_cache
                      ELSE CacheAfterStream(other_cache, rq[t].query,
                                            rq[t].full_response, now)
    /\ active_tasks' = Complete(active_tasks, t, <<>>)
    /\ UNCHANGED <<now, getResult, processed, meta, index_dir,
                   builder, consumer, proc, rank, batch, retr>>

\* ----------------------------------------------------------- SpecStream
\* stream_rag_response line 228: the final status check
FinalCheck(out, status) ==
    IF status = "failed" THEN Append(out, ErrorChunk("failed")) ELSE out

\* stream_rag_response: the task id is known, event_generator starts
ConsumerOpen(t) ==
    /\ t \in DOMAIN active_tasks
    /\ consumer[t].pc = "none"
    /\ consumer' = [consumer EXCEPT ![t].pc = "waiting"]
    /\ UNCHANGED <<now, cache, getResult, processed, meta, index_dir,
                   builder, active_tasks, rq, proc, rank, batch, retr,
                   other_cache>>

\* lines 203-205: one asyncio.sleep(0.5) of the wait for the task to start
ConsumerWait(t) ==
    /\ consumer[t].pc = "waiting"
    /\ active_tasks[t].status = "queued"
    /\ consumer[t].wait_count < MAX_WAIT
    /\ consumer' = [consumer EXCEPT ![t].wait_count = @ + 1]
    /\ UNCHANGED <<now, cache, getResult, processed, meta, index_dir,
                   builder, active_tasks, rq, proc, rank, batch, retr,
                   other_cache>>

\* lines 203-209: the wait loop ends (wait_count is not read again)
ConsumerStart(t) ==
    /\ consumer[t].pc = "waiting"
    /\ ~(active_tasks[t].status = "queued" /\ consumer[t].wait_count < MAX_WAIT)
    /\ IF active_tasks[t].status = "queued"
       THEN consumer' = [consumer EXCEPT
                ![t].pc = "closed",
                ![t].wait_count = 0,
                ![t].out = Append(@, ErrorChunk("Task timeout"))]
       ELSE consumer' = [consumer EXCEPT ![t].pc = "streaming",
                                         ![t].wait_count = 0]
    /\ UNCHANGED <<now, cache, getResult, processed, meta, index_dir,
                   builder, active_tasks, rq, proc, rank, batch, retr,
                   other_cache>>

\* what event_generator does with a value taken from the queue (lines 215-219)
OnChunk(c, chunk, status) ==
    IF chunk = None
    THEN [c EXCEPT !.pc = "closed", !.chunk = chunk, !.out = FinalCheck(@, status)]
    ELSE [c EXCEPT !.chunk = chunk, !.out = Append(@, chunk)]

\* lines 214-219: queue.get() returns within the 60 seconds
ConsumerGet(t) ==
    /\ consumer[t].pc = "streaming"
    /\ active_tasks[t].queue # <<>>
    /\ consumer' = [consumer EXCEPT ![t] =
           OnChunk(@, Head(active_tasks[t].queue), active_tasks[t].status)]
    /\ active_tasks' = [active_tasks EXCEPT ![t].queue = Tail(@)]
    /\ UNCHANGED <<now, cache, getResult, processed, meta, index_dir,
                   builder, rq, proc, rank, batch, retr, other_cache>>

\* a slip: the timeout only breaks out of the loop
OnTimeoutSilent(c, status) ==
    [c EXCEPT !.pc = "closed", !.out = FinalCheck(@, status)]

\* what event_generator does on asyncio.TimeoutError (lines 220-222, 228)
OnTimeout(c, status) ==
    [c EXCEPT !.pc = "closed",
              !.out = FinalCheck(Append(@, ErrorChunk("Stream timeout")), status)]

\* lines 220-222: nothing arrived on the queue for 60 seconds
ConsumerTimeout(t) ==
    /\ consumer[t].pc = "streaming"
    /\ active_tasks[t].queue = <<>>
    /\ consumer' = [consumer EXCEPT ![t] = OnTimeout(@, active_tasks[t].status)]
    /\ UNCHANGED <<now, cache, getResult, processed, meta, index_dir,
                   builder, active_tasks, rq, proc, rank, batch, retr,
                   other_cache>>

\* the client disconnects: the StreamingResponse closes event_generator.
\* Nothing in _run_rag_query or _active_tasks refers to the consumer.
Abandon(t) ==
    /\ consumer[t].pc \in {"waiting", "streaming"}
    /\ consumer' = [consumer EXCEPT ![t].pc = "gone", ![t].wait_count = 0]
    /\ UNCHANGED <<now, cache, getResult, processed, meta, index_dir,
                   builder, active_tasks, rq, proc, rank, batch, retr,
                   other_cache>>

\* ------------------------------------------------------------- SpecProc
WorkerIds == {"w1", "w2"}          \* Pool(processes=num_workers), at least 2
Contents == {"x", "y", "", "unreadable"}    \* what extract_text finds

NoWorker == [pc |-> "idle", file |-> 0]

IdleProc ==
    [pc |-> "idle", text |-> <<>>, pool |-> {}, next |-> 1,
     registry |-> <<>>, worker |-> [w \in WorkerIds |-> NoWorker],
     results |-> <<>>, validation_report |-> <<>>, duplicate_report |-> <<>>,
     meta_read |-> <<>>]

\* extract_text raises on an unreadable file; validate_text; compute_sha256
\* (the hash of a text is modelled by the text)
validate_text(text) == IF text = "" THEN "EMPTY" ELSE "OK"

\* line 75: content_hash in shared_hash_registry
CheckMiss(registry, content_hash) == content_hash \notin DOMAIN registry

\* process_collection lines 246-336: the input files are listed and the
\* pool is started (more than two files) or the files are processed one
\* after the other by the caller
ProcessBegin(text) ==
    /\ proc.pc = "idle"
    /\ proc' = [IdleProc EXCEPT
           !.pc = "running",
           !.text = text,
           !.pool = IF Len(text) > 2 THEN WorkerIds ELSE {"w1"}]
    /\ UNCHANGED <<now, cache, getResult, processed, meta, index_dir,
                   builder, active_tasks, rq, consumer, rank, batch, retr,
                   other_cache>>

\* pool.map hands the next file to a free worker; _process_single_file
\* lines 59-72: extraction and validation
WorkerTake(w) ==
    /\ proc.pc = "running"
    /\ w \in proc.pool
    /\ proc.worker[w].pc = "idle"
    /\ proc.next <= Len(proc.text)
    /\ LET f == proc.next
           text == proc.text[f]
       IN  IF text = "unreadable"
           THEN proc' = [proc EXCEPT !.next = f + 1,
                    !.results = Put(@, f, [status |-> "FAILED", duplicate_of |-> 0])]
           ELSE IF validate_text(text) = "EMPTY"
           THEN proc' = [proc EXCEPT !.next = f + 1,
                    !.results = Put(@, f, [status |-> "EMPTY", duplicate_of |-> 0])]
           ELSE proc' = [proc EXCEPT !.next = f + 1,
                    !.worker[w] = [pc |-> "check", file |-> f]]
    /\ UNCHANGED <<now, cache, getResult, processed, meta, index_dir,
                   builder, active_tasks, rq, consumer, rank, batch, retr,
                   other_cache>>

\* line 75: the membership test on the Manager dict
WorkerCheck(w) ==
    /\ proc.worker[w].pc = "check"
    /\ proc' = [proc EXCEPT !.worker[w].pc =
           IF CheckMiss(proc.registry, proc.text[proc.worker[w].file])
           THEN "register" ELSE "duplicate"]
    /\ UNCHANGED <<now, cache, getResult, processed, meta, index_dir,
                   builder, active_tasks, rq, consumer, rank, batch, retr,
                   other_cache>>

\* lines 76-78: DUPLICATE, duplicate_of read from the registry
WorkerDuplicate(w) ==
    /\ proc.worker[w].pc = "duplicate"
    /\ LET f == proc.worker[w].file
       IN  proc' = [proc EXCEPT
               !.worker[w] = NoWorker,
               !.results = Put(@, f, [status |-> "DUPLICATE",
                                      duplicate_of |-> proc.registry[proc.text[f]]])]
    /\ UNCHANGED <<now, cache, getResult, processed, meta, index_dir,
                   builder, active_tasks, rq, consumer, rank, batch, retr,
                   other_cache>>

\* lines 80-119: the hash is registered, the processed text is written,
\* then the sections, entities and experience files; the status is OK, or
\* FAILED when the extraction of these raises
WorkerRegister(w, extracted) ==
    /\ proc.worker[w].pc = "register"
    /\ LET f == proc.worker[w].file
       IN  /\ proc' = [proc EXCEPT
                 !.worker[w] = NoWorker,
                 !.registry = Put(@, proc.text[f], f),
                 !.results = Put(@, f,
                     [status |-> IF extracted THEN "OK" ELSE "FAILED",
                      duplicate_of |-> 0])]
           /\ processed' = processed \cup {f}
    /\ UNCHANGED <<now, cache, getResult, meta, index_dir,
                   builder, active_tasks, rq, consumer, rank, batch, retr,
                   other_cache>>

\* a slip: a duplicate is counted as an accepted resume as well
CountLoose(results, status) ==
    Cardinality({f \in DOMAIN results :
        \/ results[f].status = status
        \/ status = "OK" /\ results[f].status = "DUPLICATE"})

\* lines 352-364: the counter of one status after the loop over the results
CountStatus(results, status) ==
    Cardinality({f \in DOMAIN results : results[f].status = status})

\* lines 338-349: one entry of validation_files for every result, in the
\* order of pool.map (the order of the input files)
validation_files(results) ==
    [f \in 1..Cardinality(DOMAIN results) |->
        [filename |-> f, status |-> results[f].status]]

\* lines 360-364: one entry of duplicates for every DUPLICATE result
duplicates(results) ==
    LET entries == [f \in 1..Cardinality(DOMAIN results) |->
                       [filename |-> f, status |-> results[f].status,
                        duplicate_of |-> results[f].duplicate_of]]
        IsDuplicate(e) == e.status = "DUPLICATE"
        picked == SelectSeq(entries, IsDuplicate)
    IN  [i \in DOMAIN picked |->
            [filename |-> picked[i].filename,
             duplicate_of |-> picked[i].duplicate_of]]

\* lines 338-388: the results are counted and validation_report.json is
\* written
WriteValidationReport ==
    /\ proc.pc = "running"
    /\ DOMAIN proc.results = DOMAIN proc.text
    /\ proc' = [proc EXCEPT
           !.pc = "validated",
           !.validation_report =
               <<[total_files |-> Len(proc.text),
                  ok |-> CountStatus(proc.results, "OK"),
                  failed |-> CountStatus(proc.results, "FAILED"),
                  empty |-> CountStatus(proc.results, "EMPTY"),
                  duplicate |-> CountStatus(proc.results, "DUPLICATE"),
                  files |-> validation_files(proc.results)]>>]
    /\ UNCHANGED <<now, cache, getResult, processed, meta, index_dir,
                   builder, active_tasks, rq, consumer, rank, batch, retr,
                   other_cache>>

\* lines 390-393: duplicate_report.json is written
WriteDuplicateReport ==
    /\ proc.pc = "validated"
    /\ proc' = [proc EXCEPT
           !.pc = "reported",
           !.duplicate_report = <<duplicates(proc.results)>>]
    /\ UNCHANGED <<now, cache, getResult, processed, meta, index_dir,
                   builder, active_tasks, rq, consumer, rank, batch, retr,
                   other_cache>>

\* lines 396-397: collection_meta.json is read
ReadMeta ==
    /\ proc.pc = "reported"
    /\ proc' = [proc EXCEPT !.pc = "meta_read", !.meta_read = <<meta>>]
    /\ UNCHANGED <<now, cache, getResult, processed, meta, index_dir,
                   builder, active_tasks, rq, consumer, rank, batch, retr,
                   other_cache>>

\* lines 398-402: the dictionary that was read is updated and written back
UpdateMeta ==
    /\ proc.pc = "meta_read"
    /\ proc' = [proc EXCEPT !.pc = "done", !.meta_read = <<>>]
    /\ meta' = [proc.meta_read[1] EXCEPT !.processing_status = "completed"]
    /\ UNCHANGED <<now, cache, getResult, processed, index_dir,
                   builder, active_tasks, rq, consumer, rank, batch, retr,
                   other_cache>>

RawInputs == UNION {[1..n -> Contents] : n \in 1..NRaw}

NextProc ==
    \/ \E text \in RawInputs : ProcessBegin(text)
    \/ \E w \in WorkerIds : WorkerTake(w)
    \/ \E w \in WorkerIds : WorkerCheck(w)
    \/ \E w \in WorkerIds : WorkerDuplicate(w)
    \/ \E w \in WorkerIds, extracted \in BOOLEAN : WorkerRegister(w, extracted)
    \/ WriteValidationReport
    \/ WriteDuplicateReport
    \/ ReadMeta
    \/ UpdateMeta

\* ------------------------------------------------------------- SpecRank
JD == "jd.txt"
RESULTS_JSON == "ranking_results.json"
RESULTS_CSV == "ranking_results.csv"
SUMMARY == "ranking_summary.json"
RANK_CONFIG == "rank_config.json"
VECTORIZER == "tfidf_vectorizer.pkl"
MATRIX == "resume_matrix.npz"
RESUME_INDEX == "resume_index.json"

\* processed/<stem>_sections.json exists for the even resumes (input data)
HasSectionsJson(f) == f % 2 = 0

\* lines 68-88: the sections of a resume, <<>> for None: read from the JSON
\* file of Phase 2 when there is one, parsed from the text otherwise
\* (parse_sections never returns None)
load_sections(f) ==
    IF HasSectionsJson(f) THEN <<"loaded">> ELSE <<"parsed">>

\* line 107: all(sections is not None for sections in resume_sections_list)
use_section_aware(files) ==
    \A i \in DOMAIN files : load_sections(files[i]) # <<>>

\* lines 208-222: the artifacts a run saves
save_artifacts(disk, r, ranking) ==
    LET lexical == IF ~use_section_aware(r.files)
                   THEN Put(Put(Put(disk, VECTORIZER, ranking), MATRIX, ranking),
                            RESUME_INDEX, r.files)
                   ELSE disk
    IN  Put(lexical, RANK_CONFIG, ranking)

JdTexts == {"", "jd1", "jd2"}

\* a slip: the run goes on when no processed resume is found
RankBeginUnchecked(jd_text) ==
    /\ rank.pc \in {"idle", "failed", "done"}
    /\ rank.runs < MaxRuns
    /\ rank' = [rank EXCEPT !.pc = "scoring", !.runs = @ + 1, !.jd = jd_text,
                            !.files = sorted(processed), !.scored = 0,
                            !.disk = Put(@, JD, jd_text)]
    /\ UNCHANGED <<now, cache, getResult, processed, meta, index_dir,
                   builder, active_tasks, rq, consumer, proc, batch, retr,
                   other_cache>>

\* rank_collection lines 38-54: the JD is checked and saved, the processed
\* resumes are listed
RankBegin(jd_text) ==
    /\ rank.pc \in {"idle", "failed", "done"}
    /\ rank.runs < MaxRuns
    /\ IF jd_text = ""
       THEN rank' = [rank EXCEPT !.pc = "failed", !.runs = @ + 1, !.jd = "",
                                 !.files = <<>>, !.scored = 0]
       ELSE IF processed = {}
       THEN rank' = [rank EXCEPT !.pc = "failed", !.runs = @ + 1, !.jd = "",
                                 !.files = <<>>, !.scored = 0,
                                 !.disk = Put(@, JD, jd_text)]
       ELSE rank' = [rank EXCEPT !.pc = "scoring", !.runs = @ + 1,
                                 !.jd = jd_text,
                                 !.files = sorted(processed), !.scored = 0,
                                 !.disk = Put(@, JD, jd_text)]
    /\ UNCHANGED <<now, cache, getResult, processed, meta, index_dir,
                   builder, active_tasks, rq, consumer, proc, batch, retr,
                   other_cache>>

\* lines 62-161: one more profile is loaded and scored
RankScore ==
    /\ rank.pc = "scoring"
    /\ rank.scored < Len(rank.files)
    /\ rank' = [rank EXCEPT !.scored = @ + 1]
    /\ UNCHANGED <<now, cache, getResult, processed, meta, index_dir,
                   builder, active_tasks, rq, consumer, proc, batch, retr,
                   other_cache>>

\* the run is interrupted or raises while profiles are loaded and scored
RankAbort ==
    /\ rank.pc = "scoring"
    /\ rank.scored < Len(rank.files)
    /\ rank' = [rank EXCEPT !.pc = "failed", !.jd = "", !.files = <<>>,
                            !.scored = 0]
    /\ UNCHANGED <<now, cache, getResult, processed, meta, index_dir,
                   builder, active_tasks, rq, consumer, proc, batch, retr,
                   other_cache>>

\* the ranking a run has computed (lines 163-175), as far as it is needed
\* here: the job description and the profiles it ranks
RankingOf(r) == [jd |-> r.jd, files |-> r.files]

\* lines 177-178: ranking_results.json
RankWriteJson ==
    /\ rank.pc = "scoring"
    /\ rank.scored = Len(rank.files)
    /\ rank' = [rank EXCEPT !.pc = "w_csv",
                            !.disk = Put(@, RESULTS_JSON, RankingOf(rank))]
    /\ UNCHANGED <<now, cache, getResult, processed, meta, index_dir,
                   builder, active_tasks, rq, consumer, proc, batch, retr,
                   other_cache>>

\* lines 180-193: ranking_results.csv
RankWriteCsv ==
    /\ rank.pc = "w_csv"
    /\ rank' = [rank EXCEPT !.pc = "w_summary",
                            !.disk = Put(@, RESULTS_CSV, RankingOf(rank))]
    /\ UNCHANGED <<now, cache, getResult, processed, meta, index_dir,
                   builder, active_tasks, rq, consumer, proc, batch, retr,
                   other_cache>>

\* lines 195-222: ranking_summary.json and the artifacts
RankWriteSummary ==
    /\ rank.pc = "w_summary"
    /\ rank' = [rank EXCEPT !.pc = "w_meta",
           !.disk = save_artifacts(Put(@, SUMMARY, RankingOf(rank)), rank,
                                   RankingOf(rank))]
    /\ UNCHANGED <<now, cache, getResult, processed, meta, index_dir,
                   builder, active_tasks, rq, consumer, proc, batch, retr,
                   other_cache>>

\* lines 224-225: collection_meta.json is read
RankReadMeta ==
    /\ rank.pc = "w_meta"
    /\ rank' = [rank EXCEPT !.pc = "meta_read", !.meta_read = <<meta>>]
    /\ UNCHANGED <<now, cache, getResult, processed, meta, index_dir,
                   builder, active_tasks, rq, consumer, proc, batch, retr,
                   other_cache>>

\* lines 226-230: the dictionary that was read is updated with
\* ranking_status = "completed" and written back
RankWriteMeta ==
    /\ rank.pc = "meta_read"
    /\ rank' = [rank EXCEPT !.pc = "done", !.meta_read = <<>>]
    /\ meta' = [rank.meta_read[1] EXCEPT !.ranking_status = "completed"]
    /\ UNCHANGED <<now, cache, getResult, processed, index_dir,
                   builder, active_tasks, rq, consumer, proc, batch, retr,
                   other_cache>>

\* messages are sequences of words
NO_PROCESSED ==
    <<"Run", "processing", "first", "-", "no", "processed", "resumes", "found">>

\* str.lower()
lower(text) ==
    [i \in DOMAIN text |->
        IF text[i] = "Run" THEN "run"
        ELSE IF text[i] = "Collection" THEN "collection"
        ELSE IF text[i] = "Report" THEN "report"
        ELSE text[i]]

\* phrase in text
Contains(text, phrase) ==
    \E i \in 0..(Len(text) - Len(phrase)) :
        SubSeq(text, i + 1, i + Len(phrase)) = phrase

\* a slip: every exception becomes a 500
to_http_500(exc) ==
    [status_code |-> 500, detail |-> <<"Internal", "server", "error">>]

\* errors.py: ValueError is 404 for "collection not found" and "report not
\* found", 400 otherwise; anything else is 500
to_http_error(exc) ==
    IF exc.type = "ValueError"
    THEN IF Contains(lower(exc.msg), <<"collection", "not", "found">>)
         THEN [status_code |-> 404, detail |-> exc.msg]
         ELSE IF Contains(lower(exc.msg), <<"report", "not", "found">>)
         THEN [status_code |-> 404, detail |-> exc.msg]
         ELSE [status_code |-> 400, detail |-> exc.msg]
    ELSE [status_code |-> 500, detail |-> <<"Internal", "server", "error">>]

\* POST /collections/{id}/rank: RankRequest rejects an empty jd_text (422);
\* the guard of lines 36-38 raises when processed/ has no .txt file; else
\* rank_collection is called
rank_collection_endpoint(jd_text) ==
    /\ rank.pc \in {"idle", "failed", "done"}
    /\ rank.runs < MaxRuns
    /\ IF jd_text = ""
       THEN rank' = [rank EXCEPT
                !.runs = @ + 1,
                !.rejected = <<[status_code |-> 422,
                                detail |-> <<"jd_text", "must", "be", "non-empty">>]>>]
       ELSE IF processed = {}
       THEN rank' = [rank EXCEPT
                !.runs = @ + 1,
                !.rejected = <<to_http_error([type |-> "ValueError",
                                              msg |-> NO_PROCESSED])>>]
       ELSE rank' = [rank EXCEPT !.pc = "scoring", !.runs = @ + 1,
                                 !.jd = jd_text,
                                 !.files = sorted(processed), !.scored = 0,
                                 !.disk = Put(@, JD, jd_text),
                                 !.rejected = <<>>]
    /\ UNCHANGED <<now, cache, getResult, processed, meta, index_dir,
                   builder, active_tasks, rq, consumer, proc, batch, retr,
                   other_cache>>

\* rank requests that come through the endpoint
NextRankApi ==
    \/ \E jd_text \in JdTexts : rank_collection_endpoint(jd_text)
    \/ RankScore
    \/ RankAbort
    \/ RankWriteJson
    \/ RankWriteCsv
    \/ RankWriteSummary
    \/ RankReadMeta
    \/ RankWriteMeta

NextRank ==
    \/ \E jd_text \in JdTexts : RankBegin(jd_text)
    \/ RankScore
    \/ RankAbort
    \/ RankWriteJson
    \/ RankWriteCsv
    \/ RankWriteSummary
    \/ RankReadMeta
    \/ RankWriteMeta

\* ------------------------------------------------------------ SpecBatch
\* the scoring, sorting and truncation of rank_collection, lines 51-206
ONE == 10 ^ Precision                   \* the score 1.0
Step == 10 ^ (Precision - DECIMALS)     \* the score 0.0001

Max(a, b) == IF a >= b THEN a ELSE b

Min(a, b) == IF a <= b THEN a ELSE b

\* round(x, 4): the nearest multiple of 0.0001, a tie goes to the even one
round4(x) ==
    LET q == x \div Step
        r == x % Step
    IN  IF 2 * r > Step \/ (2 * r = Step /\ q % 2 = 1)
        THEN (q + 1) * Step ELSE q * Step

\* a slip: the weighted sum is returned as it is
combine_unclamped(tfidf_score, skill_score) ==
    (W_TFIDF * tfidf_score + W_SKILL * skill_score) \div 10

\* scoring.py: max(0.0, min(1.0, w_tfidf * tfidf + w_skill * skill))
combine_scores(tfidf_score, skill_score) ==
    Max(0, Min(ONE, (W_TFIDF * tfidf_score + W_SKILL * skill_score) \div 10))

\* the elements of a list
Items(seq) == {seq[i] : i \in DOMAIN seq}

\* list.sort and sorted(): a stable sort; <<a, b>> is in before when a must
\* come before b, elements that compare equal keep their order
StableSort(seq, before) ==
    LET place(pos) ==
            [k \in 1..Len(seq) |-> seq[CHOOSE i \in DOMAIN seq : pos[i] = k]]
        positions ==
            [i \in DOMAIN seq |->
                1 + Cardinality({j \in DOMAIN seq :
                        \/ <<seq[j], seq[i]>> \in before
                        \/ <<seq[i], seq[j]>> \notin before /\ j < i})]
    IN  IF seq = <<>> THEN <<>>
        ELSE CHOOSE out \in {place(pos) : pos \in {positions}} : TRUE

Profiles == 1..NProfiles

\* all orders in which glob can list the processed files
Listings == {l \in [Profiles -> Profiles] : \A i, j \in Profiles : l[i] = l[j] => i = j}

\* line 51: sorted(processed_dir.glob("*.txt"))
PathBefore(a, b) == a < b

sorted_files(listing) ==
    StableSort(listing, {p \in Profiles \X Profiles : PathBefore(p[1], p[2])})

\* a slip: the key of the sort is the final score alone
FinalOnlyBefore(a, b) == a.final_score_raw > b.final_score_raw

\* line 163: key (final_score_raw, tfidf_score_raw), reverse=True
ScoreBefore(a, b) ==
    \/ a.final_score_raw > b.final_score_raw
    \/ /\ a.final_score_raw = b.final_score_raw
       /\ a.tfidf_score_raw > b.tfidf_score_raw

\* line 163: results.sort(key=(final_score_raw, tfidf_score_raw), reverse=True)
sort_results(results) ==
    StableSort(results,
               {p \in Items(results) \X Items(results) : ScoreBefore(p[1], p[2])})

\* lines 165-172: the rank is the position, the scores are rounded and the
\* raw scores are deleted
ranked(results) ==
    [i \in DOMAIN results |->
        [filename |-> results[i].filename,
         rank |-> i,
         tfidf_score |-> round4(results[i].tfidf_score_raw),
         skill_score |-> round4(results[i].skill_score_raw),
         final_score |-> round4(results[i].final_score_raw)]]

\* a slip: top_k is not applied
truncate_none(results, top_k) == results

\* lines 174-175: results[:top_k] when top_k is given (top_k: int | None
\* is <<k>> or <<>>)
truncate(results, top_k) ==
    IF top_k = <<>> THEN results
    ELSE SubSeq(results, 1, Min(top_k[1], Len(results)))

\* (tfidf, skill) of a profile against the job description: a tie of the
\* final score with different tfidf, scores out of [0,1], a score that
\* rounding changes
ScorePairs ==
    {<<(3 * ONE) \div 10, (7 * ONE) \div 10>>, <<(6 * ONE) \div 10, 0>>,
     <<(3 * ONE) \div 2, ONE>>, <<0 - (ONE \div 2), 0>>, <<ONE \div 3, 0>>}

\* top_k is None or at least 1 (validate_top_k)
TopKs == {<<>>} \cup {<<k>> : k \in 1..(NProfiles + 1)}

IdleBatch == [pc |-> "none"]

\* rank_collection is called on NProfiles processed resumes
InitBatch ==
    \E pairs \in [Profiles -> ScorePairs], top_k \in TopKs :
        batch = [pc |-> "start", runs |-> 0,
                 tfidf |-> [f \in Profiles |-> pairs[f][1]],
                 skill |-> [f \in Profiles |-> pairs[f][2]],
                 top_k |-> top_k, files |-> <<>>, results |-> <<>>,
                 written |-> <<>>, ranked_count |-> 0, first |-> <<>>]

\* line 51: the processed files are listed and sorted
BatchList(listing) ==
    /\ batch.pc = "start"
    /\ batch' = [batch EXCEPT !.pc = "scoring", !.runs = @ + 1,
                              !.files = sorted_files(listing), !.results = <<>>]
    /\ UNCHANGED <<now, cache, getResult, processed, meta, index_dir, builder,
                   active_tasks, rq, consumer, proc, rank, retr, other_cache>>

\* lines 137-161: one more profile is scored
BatchScore ==
    /\ batch.pc = "scoring"
    /\ Len(batch.results) < Len(batch.files)
    /\ LET f == batch.files[Len(batch.results) + 1]
       IN  batch' = [batch EXCEPT !.results = Append(@,
               [filename |-> f,
                tfidf_score_raw |-> batch.tfidf[f],
                skill_score_raw |-> batch.skill[f],
                final_score_raw |-> combine_scores(batch.tfidf[f], batch.skill[f])])]
    /\ UNCHANGED <<now, cache, getResult, processed, meta, index_dir, builder,
                   active_tasks, rq, consumer, proc, rank, retr, other_cache>>

\* line 163: results.sort
BatchSort ==
    /\ batch.pc = "scoring"
    /\ Len(batch.results) = Len(batch.files)
    /\ batch' = [batch EXCEPT !.pc = "sorted",
                              !.results = sort_results(@)]
    /\ UNCHANGED <<now, cache, getResult, processed, meta, index_dir, builder,
                   active_tasks, rq, consumer, proc, rank, retr, other_cache>>

\* lines 165-175: ranks, rounding, top_k
BatchRank ==
    /\ batch.pc = "sorted"
    /\ batch' = [batch EXCEPT !.pc = "ranked",
                              !.results = truncate(ranked(@), batch.top_k)]
    /\ UNCHANGED <<now, cache, getResult, processed, meta, index_dir, builder,
                   active_tasks, rq, consumer, proc, rank, retr, other_cache>>

\* lines 177-206: ranking_results.json and ranked_count of the summary
BatchWrite ==
    /\ batch.pc = "ranked"
    /\ batch' = [batch EXCEPT !.pc = "done", !.written = batch.results,
                              !.ranked_count = Len(batch.results),
                              !.first = IF batch.runs = 1 THEN batch.results ELSE @]
    /\ UNCHANGED <<now, cache, getResult, processed, meta, index_dir, builder,
                   active_tasks, rq, consumer, proc, rank, retr, other_cache>>

\* rank_collection is called again with the same job description
BatchAgain ==
    /\ batch.pc = "done"
    /\ batch.runs < MaxRuns
    /\ batch' = [batch EXCEPT !.pc = "start"]
    /\ UNCHANGED <<now, cache, getResult, processed, meta, index_dir, builder,
                   active_tasks, rq, consumer, proc, rank, retr, other_cache>>

NextBatch ==
    \/ \E listing \in Listings : BatchList(listing)
    \/ BatchScore
    \/ BatchSort
    \/ BatchRank
    \/ BatchWrite
    \/ BatchAgain

\* --------------------------------------------------------- SpecRetrieve
\* retrieve_candidates (rag_retrieval.py lines 69-177) on an index built
\* over the processed resumes of the collection

\* skills.py: the share of the query skills the resume has
skill_overlap_score(jd_skills, skills) ==
    IF jd_skills = {} THEN 0
    ELSE (Cardinality(jd_skills \cap skills) * ONE) \div Cardinality(jd_skills)

\* a slip: retrieval scores a query without skills as a full match
retrieval_full_without_skills(query_skills, skills) ==
    IF query_skills # {} THEN skill_overlap_score(query_skills, skills) ELSE ONE

\* rag_retrieval.py line 132
retrieval_skill_score(query_skills, skills) ==
    IF query_skills # {} THEN skill_overlap_score(query_skills, skills) ELSE 0

\* load_ranking_results: filename -> [rank, final_score]; {} without a file.
\* The file is <<>> (absent) or <<entries>>.
load_ranking_results(ranking_file) ==
    IF ranking_file = <<>> THEN <<>>
    ELSE LET results == ranking_file[1]
         IN  [f \in {results[i].filename : i \in DOMAIN results} |->
                 LET i == CHOOSE k \in DOMAIN results : results[k].filename = f
                 IN  [rank |-> results[i].rank,
                      final_score |-> results[i].final_score]]

\* a slip: the search returns the farthest vectors first
search_farthest_first(dists, k) ==
    LET ids == [i \in 1..Len(dists) |-> i]
        Farther == {p \in Items(ids) \X Items(ids) : dists[p[1]] > dists[p[2]]}
    IN  SubSeq(StableSort(ids, Farther), 1, Min(k, Len(dists)))

\* search_index: index.search(query, min(k, index.ntotal)) of IndexFlatL2,
\* the ids of the nearest vectors, the nearest first; dists[i] is the
\* squared L2 distance of vector i to the query, in units of 1/DistScale
search_index(dists, k) ==
    LET ids == [i \in 1..Len(dists) |-> i]
        Nearer == {p \in Items(ids) \X Items(ids) : dists[p[1]] < dists[p[2]]}
    IN  SubSeq(StableSort(ids, Nearer), 1, Min(k, Len(dists)))

\* line 101: similarities = 1.0 / (1.0 + distances)
similarity(distance) == (ONE * DistScale) \div (DistScale + distance)

\* a slip: the weights without prior ranking are used in both cases
combined_no_prior(has_ranking, faiss_similarity, ranking_score, skill_score) ==
    (W_FAISS * faiss_similarity + W_SKILL_ONLY * skill_score) \div 10

\* lines 135-140
combined_score(has_ranking, faiss_similarity, ranking_score, skill_score) ==
    IF has_ranking
    THEN (W_FAISS_RANKED * faiss_similarity + W_RANKING * ranking_score
             + W_SKILL_RANKED * skill_score) \div 10
    ELSE (W_FAISS * faiss_similarity + W_SKILL_ONLY * skill_score) \div 10

\* a slip: the two bounds are read the other way round
passes_rank_bounds_swapped(rank_position, filters) ==
    /\ filters.min_rank_position # <<>> =>
           ~(rank_position < filters.min_rank_position[1])
    /\ filters.max_rank_position # <<>> =>
           ~(rank_position > filters.max_rank_position[1])

\* lines 143-151
passes_rank_bounds(rank_position, filters) ==
    /\ filters.min_rank_position # <<>> =>
           ~(rank_position > filters.min_rank_position[1])
    /\ filters.max_rank_position # <<>> =>
           ~(rank_position < filters.max_rank_position[1])

\* lines 153-155
passes_min_score(combined, filters) ==
    filters.min_ranking_score # <<>> => ~(combined < filters.min_ranking_score[1])

\* a slip: the skills filter is not applied
passes_skills_unchecked(skills, filters) == TRUE

\* lines 157-160
passes_skills(skills, filters) ==
    filters.required_skills # {} => (filters.required_skills \cap skills) # {}

\* lines 120-171 for one hit: <<>> when a filter drops it, <<candidate>>
\* otherwise
candidate_of(filename, faiss_similarity, r) ==
    LET ranking_dict == IF r.use_ranking THEN load_ranking_results(r.ranking_file)
                        ELSE <<>>
        has_ranking == DOMAIN ranking_dict # {}
        ranked_ == filename \in DOMAIN ranking_dict
        ranking_score == IF has_ranking /\ ranked_
                         THEN ranking_dict[filename].final_score ELSE 0
        rank_position == IF has_ranking /\ ranked_
                         THEN ranking_dict[filename].rank ELSE NO_RANK
        skills == resume_skills(filename, processed)
        skill_score == retrieval_skill_score(r.query_skills, skills)
        combined == combined_score(has_ranking, faiss_similarity,
                                   ranking_score, skill_score)
    IN  IF /\ passes_rank_bounds(rank_position, r.filters)
           /\ passes_min_score(combined, r.filters)
           /\ passes_skills(skills, r.filters)
        THEN <<[filename |-> filename,
                rank_position |-> rank_position,
                faiss_similarity |-> round4(faiss_similarity),
                ranking_score |-> IF has_ranking THEN <<round4(ranking_score)>>
                                  ELSE <<>>,
                skill_score |-> round4(skill_score),
                combined_score |-> round4(combined),
                skills |-> skills]>>
        ELSE <<>>

CombinedBefore(candidates) ==
    {p \in Items(candidates) \X Items(candidates) :
        p[1].combined_score > p[2].combined_score}

\* a slip: the list is cut before it is sorted
cut_then_sort(candidates, top_k) ==
    StableSort(SubSeq(candidates, 1, Min(top_k, Len(candidates))),
               CombinedBefore(candidates))

\* lines 173-177: sort by combined_score, reverse=True; candidates[:top_k]
sort_then_cut(candidates, top_k) ==
    SubSeq(StableSort(candidates, CombinedBefore(candidates)),
           1, Min(top_k, Len(candidates)))

\* squared L2 distances of normalized vectors to the query
DistValues == {0, 2 * DistScale}

QuerySkills == {{}, {"sql"}, {"python", "sql"}}

\* final_score values found in ranking_results.json: one that rank writes,
\* one below 0 and one above 1
PriorScores == {ONE \div 2, 0 - ONE, 2 * ONE}

\* ranking_results.json: absent, or the top k entries of a ranking, in the
\* order of their scores
RankingFiles ==
    {<<>>} \cup
    {<<truncate(ranked(sort_results(
           [f \in Profiles |-> [filename |-> f, tfidf_score_raw |-> scores[f],
                                skill_score_raw |-> 0,
                                final_score_raw |-> scores[f]]])), <<k>>)>> :
        scores \in [Profiles -> PriorScores], k \in Profiles}

FilterChoices ==
    [min_rank_position : {<<>>, <<1>>},
     max_rank_position : {<<>>, <<2>>},
     min_ranking_score : {<<>>, <<ONE \div 2>>},
     required_skills : {{}, {"sql"}}]

IdleRetr == [pc |-> "none"]

InitRetr ==
    \E dists \in [Profiles -> DistValues], query_skills \in QuerySkills,
       ranking_file \in RankingFiles, filters \in FilterChoices,
       use_ranking \in BOOLEAN, top_k \in 1..NProfiles :
        retr = [pc |-> "start", dists |-> dists, sims |-> <<>>,
                query_skills |-> query_skills,
                ranking_file |-> ranking_file, filters |-> filters,
                use_ranking |-> use_ranking, top_k |-> top_k,
                resume_mapping |-> [i \in 1..NProfiles |-> i],
                hits |-> <<>>, candidates |-> <<>>, result |-> <<>>]

\* lines 97-101: stage 1, the FAISS search
RetrSearch ==
    /\ retr.pc = "start"
    /\ \E indices \in {search_index(retr.dists, SHORTLIST)} :
           retr' = [retr EXCEPT
               !.pc = "rerank",
               !.hits = indices,
               !.sims = [idx \in DOMAIN indices |->
                            similarity(retr.dists[indices[idx]])]]
    /\ UNCHANGED <<now, cache, getResult, processed, meta, index_dir, builder,
                   active_tasks, rq, consumer, proc, rank, batch,
                   other_cache>>

\* lines 116-171: one hit is scored, filtered and, if it passes, appended
RetrConsider ==
    /\ retr.pc = "rerank"
    /\ retr.hits # <<>>
    /\ LET vector_id == Head(retr.hits)
       IN  retr' = [retr EXCEPT
               !.hits = Tail(@),
               !.sims = Tail(@),
               !.candidates =
                   IF vector_id \notin DOMAIN retr.resume_mapping THEN @
                   ELSE @ \o candidate_of(retr.resume_mapping[vector_id],
                                          Head(retr.sims), retr)]
    /\ UNCHANGED <<now, cache, getResult, processed, meta, index_dir, builder,
                   active_tasks, rq, consumer, proc, rank, batch,
                   other_cache>>

\* lines 173-177: sort and return the top_k
RetrReturn ==
    /\ retr.pc = "rerank"
    /\ retr.hits = <<>>
    /\ retr' = [retr EXCEPT !.pc = "done",
                            !.result = sort_then_cut(retr.candidates, retr.top_k)]
    /\ UNCHANGED <<now, cache, getResult, processed, meta, index_dir, builder,
                   active_tasks, rq, consumer, proc, rank, batch,
                   other_cache>>

NextRetr ==
    \/ RetrSearch
    \/ RetrConsider
    \/ RetrReturn

\* ------------------------------------------------------------ SpecScore
\* the scores of rank_collection (ranking_service.py lines 102-161): the
\* section-aware lexical score, the skill score and the explainability of
\* every profile, and the skill score retrieve_candidates gives the same
\* profiles

\* tfidf_builder.py lines 104 and 247: the sections that are scored
WEIGHTED == <<"experience", "skills", "projects">>

\* tfidf_builder.py lines 19-26, in tenths
SECTION_WEIGHTS ==
    [experience |-> 5, skills |-> 3, projects |-> 2,
     summary |-> 0, education |-> 0, other |-> 0]

\* the skills of the vocabulary that occur in the model, in the order of
\* Python's string comparison
Alphabet == <<"aws", "python", "sql">>

SkillPos(s) == CHOOSE i \in DOMAIN Alphabet : Alphabet[i] = s

\* iterating a Python set: some order of its elements
SetToList(S) ==
    IF S = {} THEN <<>>
    ELSE CHOOSE seq \in [1..Cardinality(S) -> S] : Items(seq) = S

\* sorted(a_set) of strings
sorted_skills(S) ==
    StableSort(SetToList(S),
               {p \in S \X S : SkillPos(p[1]) < SkillPos(p[2])})

\* a slip: every skill of the job description is reported as missing
explain_all_missing(jd_skills, skills) ==
    [matched_skills |-> sorted_skills(jd_skills \cap skills),
     missing_skills |-> sorted_skills(jd_skills)]

\* scoring.py lines 17-39
build_explainability(jd_skills, skills) ==
    [matched_skills |-> sorted_skills(jd_skills \cap skills),
     missing_skills |-> sorted_skills(jd_skills \ skills)]

\* tfidf_builder.py lines 121-156: fitting the vectorizer of one section on
\* num_docs texts.  outcome is what the corpus does to TfidfVectorizer.fit:
\* "ok"; "stop_words" (ValueError "empty vocabulary; perhaps the documents
\* only contain stop words", at any min_df); "pruned" (no term occurs in two
\* texts: with min_df = 2 ValueError "After pruning, no terms remain", with
\* min_df = 1 a vocabulary).  The result is "fitted", "skipped" or "raised".
fit_section(num_docs, outcome) ==
    LET min_df == IF num_docs >= 3 THEN 2 ELSE 1
    IN  IF outcome = "ok" THEN "fitted"
        ELSE IF outcome = "stop_words" THEN "skipped"
        ELSE IF min_df = 1 THEN "fitted"
        ELSE "raised"

\* the texts of section s handed to its vectorizer (lines 109-115)
section_docs(texts, s) == {f \in DOMAIN texts : s \in texts[f]}

\* build_section_aware_tfidf: the sections that get a vectorizer; a section
\* no resume has text for is skipped (lines 118-119)
build_section_aware_tfidf(texts, outcomes) ==
    {s \in Items(WEIGHTED) :
        /\ section_docs(texts, s) # {}
        /\ fit_section(Cardinality(section_docs(texts, s)), outcomes[s]) = "fitted"}

\* line 156: the ValueError of a fit that is raised again
build_raises(texts, outcomes) ==
    \E s \in Items(WEIGHTED) :
        /\ section_docs(texts, s) # {}
        /\ fit_section(Cardinality(section_docs(texts, s)), outcomes[s]) = "raised"

\* _compute_skill_boost_factor, as the fraction <<numerator, denominator>>:
\* 1.0 without skills in the job description, else 1.0 + overlap * 0.5
compute_skill_boost_factor(skills, jd_skills) ==
    IF jd_skills = {} THEN <<1, 1>>
    ELSE <<2 * Cardinality(jd_skills) + Cardinality(skills \cap jd_skills),
           2 * Cardinality(jd_skills)>>

\* compute_section_aware_similarity: transform_sections and
\* transform_jd_sections give a vector for every section that has a
\* vectorizer; cosines[s] is the cosine of the two vectors of section s
compute_section_aware_similarity(vectorizers, cosines, boost) ==
    LET used == {s \in Items(WEIGHTED) :
                    SECTION_WEIGHTS[s] # 0 /\ s \in vectorizers}
        term(i) == IF WEIGHTED[i] \in used
                   THEN SECTION_WEIGHTS[WEIGHTED[i]] * cosines[WEIGHTED[i]] ELSE 0
        weight(i) == IF WEIGHTED[i] \in used THEN SECTION_WEIGHTS[WEIGHTED[i]] ELSE 0
        total_score == term(1) + term(2) + term(3)
        total_weight == weight(1) + weight(2) + weight(3)
        base_similarity == IF total_weight > 0 THEN total_score \div total_weight
                           ELSE 0
    IN  Min((base_similarity * boost[1]) \div boost[2], ONE)

\* ranking_service.py lines 140-144: the skills of a resume, from its
\* entities file when that names skills, from its text otherwise
row_skills(entities, text_skills) ==
    IF entities # <<>> /\ entities[1] # {} THEN entities[1] ELSE text_skills

\* the weighted sections a resume has text in (input data)
SectionTexts == {{}, {"experience"}, {"skills", "projects"}}

\* what the corpus of each section does to the fit (input data)
FitOutcomes ==
    {[experience |-> "ok", skills |-> "ok", projects |-> "ok"],
     [experience |-> "stop_words", skills |-> "ok", projects |-> "ok"],
     [experience |-> "stop_words", skills |-> "stop_words", projects |-> "stop_words"],
     [experience |-> "ok", skills |-> "pruned", projects |-> "ok"]}

\* cosine of the job description with a section of resume f and with the
\* whole text of resume f (input data)
SectionCosine(f, a) == (((f + a) % 3) * ONE) \div 2
WholeCosine(f, a) == (((f + a + 1) % 3) * ONE) \div 3

\* the skills named by processed/<stem>_entities.json, <<>> without the file
EntitiesOf(f, e) ==
    IF f % 2 = e THEN <<>> ELSE IF f = 1 THEN <<{}>> ELSE <<{"aws", "sql"}>>

JdSkills == QuerySkills \cup {{"aws", "python", "sql"}}

InitScoreInputs ==
    \E texts \in [Profiles -> SectionTexts], outcomes \in FitOutcomes,
       a \in 0..2, e \in 0..1, jd_skills \in JdSkills :
        batch = [pc |-> "start", files |-> sorted_files([i \in Profiles |-> i]), texts |-> texts,
                 outcomes |-> outcomes,
                 cosines |-> [f \in Profiles |->
                                 [s \in Items(WEIGHTED) |->
                                     IF s \in texts[f] THEN SectionCosine(f, a)
                                     ELSE 0]],
                 whole |-> [f \in Profiles |-> WholeCosine(f, a)],
                 entities |-> [f \in Profiles |-> EntitiesOf(f, e)],
                 jd_skills |-> jd_skills,
                 vectorizers |-> {}, tfidf |-> <<>>, results |-> <<>>,
                 retrieved |-> <<>>, error |-> <<>>]

\* lines 107-113: the section vectorizers are built; a ValueError that is
\* not recognised ends the run
ScoreBuild ==
    /\ batch.pc = "start"
    /\ batch' =
        IF use_section_aware(batch.files)
        THEN IF build_raises(batch.texts, batch.outcomes)
             THEN [batch EXCEPT !.pc = "error",
                                !.error = <<"After pruning, no terms remain">>]
             ELSE [batch EXCEPT !.pc = "built",
                                !.vectorizers = build_section_aware_tfidf(
                                                    batch.texts, batch.outcomes)]
        ELSE [batch EXCEPT !.pc = "built"]
    /\ UNCHANGED <<now, cache, getResult, processed, meta, index_dir, builder,
                   active_tasks, rq, consumer, proc, rank, retr, other_cache>>

\* lines 115-133: the lexical score of every resume
ScoreLexical ==
    /\ batch.pc = "built"
    /\ batch' = [batch EXCEPT !.pc = "lexical", !.tfidf =
          IF use_section_aware(batch.files)
          THEN [f \in Profiles |->
                   compute_section_aware_similarity(
                       batch.vectorizers, batch.cosines[f],
                       compute_skill_boost_factor(SkillsOf(f), batch.jd_skills))]
          ELSE batch.whole]
    /\ UNCHANGED <<now, cache, getResult, processed, meta, index_dir, builder,
                   active_tasks, rq, consumer, proc, rank, retr, other_cache>>

\* lines 137-161: the result of one more resume
ScoreRow ==
    /\ batch.pc = "lexical"
    /\ Len(batch.results) < Len(batch.files)
    /\ LET f == batch.files[Len(batch.results) + 1]
           profile_skills == row_skills(batch.entities[f], SkillsOf(f))
           skill_score == skill_overlap_score(batch.jd_skills, profile_skills)
       IN  batch' = [batch EXCEPT !.results = Append(@,
               [filename |-> f,
                tfidf_score_raw |-> batch.tfidf[f],
                skill_score_raw |-> skill_score,
                final_score_raw |-> combine_scores(batch.tfidf[f], skill_score),
                explainability |->
                    build_explainability(batch.jd_skills, profile_skills)])]
    /\ UNCHANGED <<now, cache, getResult, processed, meta, index_dir, builder,
                   active_tasks, rq, consumer, proc, rank, retr, other_cache>>

\* rag_retrieval.py lines 128-132: the job description is asked as a query
\* and every resume gets its skill score
ScoreRetrieval ==
    /\ batch.pc = "lexical"
    /\ Len(batch.results) = Len(batch.files)
    /\ batch' = [batch EXCEPT !.pc = "done", !.retrieved =
          [f \in Profiles |->
              retrieval_skill_score(batch.jd_skills, resume_skills(f, processed))]]
    /\ UNCHANGED <<now, cache, getResult, processed, meta, index_dir, builder,
                   active_tasks, rq, consumer, proc, rank, retr, other_cache>>

NextScore ==
    \/ ScoreBuild
    \/ ScoreLexical
    \/ ScoreRow
    \/ ScoreRetrieval

\* ------------------------------------------------------- specifications
IdleRank ==
    [pc |-> "idle", jd |-> "", files |-> <<>>, scored |-> 0, runs |-> 0,
     disk |-> <<>>, rejected |-> <<>>, meta_read |-> <<>>]

InitCache ==
    /\ now = 0
    /\ other_cache = <<>>
    /\ cache = <<>>
    /\ getResult = None
    /\ processed = {}
    /\ meta = [processing_status |-> "absent", ranking_status |-> "absent"]
    /\ index_dir = <<>>
    /\ builder = [pc |-> "idle", files |-> <<>>]
    /\ active_tasks = <<>>
    /\ rq = [t \in Tasks |-> IdleFrame]
    /\ consumer = [t \in Tasks |-> IdleConsumer]
    /\ proc = IdleProc
    /\ rank = IdleRank
    /\ batch = IdleBatch
    /\ retr = IdleRetr

NextCache ==
    \/ \E fp \in Fingerprints, text \in Texts : CachePut(fp, text)
    \/ \E fp \in Fingerprints : CacheGet(fp)
    \/ Tick

SpecCache == InitCache /\ [][NextCache]_vars

\* a collection after create_collection
SpecProc == InitCache /\ [][NextProc]_vars

\* collections on which rank_collection is called: any set of processed
\* resumes (none when processing has not run)
InitRank ==
    /\ now = 0
    /\ other_cache = <<>>
    /\ cache = <<>>
    /\ getResult = None
    /\ processed \in SUBSET Files
    /\ meta = [processing_status |-> IF processed = {} THEN "absent" ELSE "completed",
               ranking_status |-> "absent"]
    /\ index_dir = <<>>
    /\ builder = [pc |-> "idle", files |-> <<>>]
    /\ active_tasks = <<>>
    /\ rq = [t \in Tasks |-> IdleFrame]
    /\ consumer = [t \in Tasks |-> IdleConsumer]
    /\ proc = IdleProc
    /\ rank = IdleRank
    /\ batch = IdleBatch
    /\ retr = IdleRetr

SpecRank == InitRank /\ [][NextRank]_vars

SpecRankApi == InitRank /\ [][NextRankApi]_vars

\* a process run in the thread of the executor while rank requests are
\* served by the event loop (collections_process.py line 47)
NextMeta ==
    \/ NextProc
    \/ NextRankApi

SpecMeta == InitCache /\ [][NextMeta]_vars

TaskStep(t) ==
    \/ RunStart(t)
    \/ Prepare(t)
    \/ CheckCache(t)
    \/ LoadIndex(t)
    \/ LoadMapping(t)
    \/ StreamChunk(t)
    \/ StreamError(t)
    \/ StreamEnd(t)

\* a collection after create_collection: nothing processed, nothing built
InitIndex == InitCache

\* processing runs, index builds of another server process, and
\* retrievals whose LLM answer is empty
NextIndex ==
    \/ \E ok \in SUBSET Files : ProcessRun(ok)
    \/ BuilderBegin
    \/ BuilderWriteIndex
    \/ BuilderWriteMapping
    \/ BuilderWriteMeta
    \/ \E t \in Tasks, q \in Queries, required \in RequiredChoices :
           QueryRag(t, q, required)
    \/ \E t \in Tasks : RunStart(t)
    \/ \E t \in Tasks : Prepare(t)
    \/ \E t \in Tasks : CheckCache(t)
    \/ \E t \in Tasks : LoadIndex(t)
    \/ \E t \in Tasks : LoadMapping(t)
    \/ \E t \in Tasks : StreamEnd(t)

SpecIndex == InitIndex /\ [][NextIndex]_vars

\* collections on which retrievals are run: not processed; processed with
\* no resume extracted; processed and not indexed; processed, with an index
\* built over the resumes `built`
InitCollection(built) ==
    /\ now = 0
    /\ other_cache = <<>>
    /\ cache = <<>>
    /\ getResult = None
    /\ \E env \in 1..4 :
        /\ processed = IF env \in {1, 2} THEN {} ELSE Files
        /\ meta = [processing_status |-> IF env = 1 THEN "absent" ELSE "completed",
                   ranking_status |-> "absent"]
        /\ index_dir = IF env = 4 THEN BuiltDir(<<>>, built) ELSE <<>>
    /\ builder = [pc |-> "idle", files |-> <<>>]
    /\ active_tasks = <<>>
    /\ rq = [t \in Tasks |-> IdleFrame]
    /\ consumer = [t \in Tasks |-> IdleConsumer]
    /\ proc = IdleProc
    /\ rank = IdleRank
    /\ batch = IdleBatch
    /\ retr = IdleRetr

\* the index, when there is one, is up to date
InitStream == InitCollection(sorted(Files))

\* the index, when there is one, was built when resume 1 was the only one
InitLazy == InitCollection(sorted({1}))

ConsumerStep(t) ==
    \/ ConsumerOpen(t)
    \/ ConsumerWait(t)
    \/ ConsumerStart(t)
    \/ ConsumerGet(t)
    \/ ConsumerTimeout(t)
    \/ Abandon(t)

NextStream ==
    \/ \E t \in Tasks, q \in Queries, required \in RequiredChoices :
           QueryRag(t, q, required)
    \/ \E t \in Tasks : TaskStep(t)
    \/ \E t \in Tasks : ConsumerStep(t)

SpecStream == InitStream /\ [][NextStream]_vars

\* the producer side alone: _run_rag_query tasks of the event loop
NextTask ==
    \/ \E t \in Tasks, q \in Queries, required \in RequiredChoices :
           QueryRag(t, q, required)
    \/ \E t \in Tasks : TaskStep(t)

SpecTask == InitStream /\ [][NextTask]_vars

\* the event loop runs every task that is ready, and the answer of the LLM
\* is finite
FairSpecTask == SpecTask /\ \A t \in Tasks : WF_vars(TaskStep(t))

InitBatchRun ==
    /\ now = 0
    /\ other_cache = <<>>
    /\ cache = <<>>
    /\ getResult = None
    /\ processed = Profiles
    /\ meta = [processing_status |-> "completed", ranking_status |-> "absent"]
    /\ index_dir = <<>>
    /\ builder = [pc |-> "idle", files |-> <<>>]
    /\ active_tasks = <<>>
    /\ rq = [t \in Tasks |-> IdleFrame]
    /\ consumer = [t \in Tasks |-> IdleConsumer]
    /\ proc = IdleProc
    /\ rank = IdleRank
    /\ InitBatch
    /\ retr = IdleRetr

SpecBatch == InitBatchRun /\ [][NextBatch]_vars

\* rank_collection scores NProfiles processed resumes
InitScore ==
    /\ now = 0
    /\ other_cache = <<>>
    /\ cache = <<>>
    /\ getResult = None
    /\ processed = Profiles
    /\ meta = [processing_status |-> "completed", ranking_status |-> "absent"]
    /\ index_dir = <<>>
    /\ builder = [pc |-> "idle", files |-> <<>>]
    /\ active_tasks = <<>>
    /\ rq = [t \in Tasks |-> IdleFrame]
    /\ consumer = [t \in Tasks |-> IdleConsumer]
    /\ proc = IdleProc
    /\ rank = IdleRank
    /\ InitScoreInputs
    /\ retr = IdleRetr

SpecScore == InitScore /\ [][NextScore]_vars

\* a processed and indexed collection on which retrieve_candidates is called
InitRetrieve ==
    /\ now = 0
    /\ other_cache = <<>>
    /\ cache = <<>>
    /\ getResult = None
    /\ processed = Profiles
    /\ meta = [processing_status |-> "completed", ranking_status |-> "absent"]
    /\ index_dir = <<>>
    /\ builder = [pc |-> "idle", files |-> <<>>]
    /\ active_tasks = <<>>
    /\ rq = [t \in Tasks |-> IdleFrame]
    /\ consumer = [t \in Tasks |-> IdleConsumer]
    /\ proc = IdleProc
    /\ rank = IdleRank
    /\ batch = IdleBatch
    /\ InitRetr

SpecRetrieve == InitRetrieve /\ [][NextRetr]_vars

Collections == {"A", "B"}

TopKChoices == {1, 5}

\* two collections that hold the same processed resumes and are indexed;
\* each has its own rag/cache/
InitScope == InitStream /\ index_dir # <<>>

\* retrieves on either collection while the clock runs
NextScope ==
    \/ \E t \in Tasks, collection \in Collections, q \in Queries,
          required \in RequiredChoices, top_k \in TopKChoices,
          include_context \in BOOLEAN :
           QueryRagIn(t, collection, q, required, top_k, include_context)
    \/ \E t \in Tasks : TaskStep(t)
    \/ Tick

SpecScope == InitScope /\ [][NextScope]_vars

\* sizes of the index: one vector, the profiles, the size of the shortlist
\* and one more
VectorCounts == {1, NProfiles, SHORTLIST, SHORTLIST + 1}

\* distances of n vectors to the query: all equal, growing with the id,
\* and two that go up and down
DistPatterns(n) ==
    {[i \in 1..n |-> ((i * a) % 5) * DistScale] : a \in 0..3}

\* resume_mapping.json as loaded: of this index, or of a build that had
\* one resume less or no resume but the first
Mappings(n) ==
    {[i \in 1..m |-> i] : m \in {n, n - 1, 1}}

\* retrieve_candidates on an index of any of these sizes, without filters
InitSearch ==
    /\ now = 0
    /\ other_cache = <<>>
    /\ cache = <<>>
    /\ getResult = None
    /\ processed = Profiles
    /\ meta = [processing_status |-> "completed", ranking_status |-> "absent"]
    /\ index_dir = <<>>
    /\ builder = [pc |-> "idle", files |-> <<>>]
    /\ active_tasks = <<>>
    /\ rq = [t \in Tasks |-> IdleFrame]
    /\ consumer = [t \in Tasks |-> IdleConsumer]
    /\ proc = IdleProc
    /\ rank = IdleRank
    /\ batch = IdleBatch
    /\ \E n \in VectorCounts :
       \E dists \in DistPatterns(n), resume_mapping \in Mappings(n),
          query_skills \in QuerySkills, top_k \in 1..NProfiles :
           retr = [pc |-> "start", dists |-> dists, sims |-> <<>>,
                   query_skills |-> query_skills,
                   ranking_file |-> <<>>,
                   filters |-> [min_rank_position |-> <<>>,
                                max_rank_position |-> <<>>,
                                min_ranking_score |-> <<>>,
                                required_skills |-> {}],
                   use_ranking |-> TRUE, top_k |-> top_k,
                   resume_mapping |-> resume_mapping,
                   hits |-> <<>>, candidates |-> <<>>, result |-> <<>>]

SpecSearch == InitSearch /\ [][NextRetr]_vars

\* rank runs and retrievals on the same collections
NextCorpus ==
    \/ NextTask
    \/ NextRank

SpecCorpus == InitStream /\ [][NextCorpus]_vars

\* the producer side on collections whose index, if any, is an old one
SpecLazy == InitLazy /\ [][NextTask]_vars

\* ================================================================ claims
Range(seq) == {seq[i] : i \in DOMAIN seq}

Last(seq) == seq[Len(seq)]

\* the items a step appends to the queue of task t
NewItems(t) ==
    IF t \in DOMAIN active_tasks
    THEN {active_tasks'[t].queue[i] :
            i \in (Len(active_tasks[t].queue) + 1)..Len(active_tasks'[t].queue)}
    ELSE {}

\* C1: a retrieval that ends with an "Error:" chunk, from the orchestrator
\* or from the LLM (at once or in mid-stream), leaves the cache as it was:
\* no cache entry is written for the failed query.
C1_FailureNeverCached ==
    [][\A t \in Tasks :
          (\E item \in NewItems(t) : StartsWithError(item)) => cache' = cache]_vars

\* C2: get(fp) returns the text of the entry exactly when its age is below
\* one hour; at an age of one hour or more it returns absent and removes
\* the entry.
C2_GetWithinTTL ==
    [][\A fp \in Fingerprints :
          (CacheGet(fp) /\ fp \in DOMAIN cache) =>
              IF now - cache[fp].cached_at < TTL
              THEN getResult' = cache[fp].response /\ cache' = cache
              ELSE getResult' = None /\ fp \notin DOMAIN cache']_vars

\* C3: a retrieve that goes on to search has, when it leaves the lazy-build
\* step, an index built from the current processed profile set.
C3_IndexFreshAtRetrieve ==
    [][\A t \in Tasks :
          (rq[t].pc = "prepare" /\ rq'[t].pc = "cache") =>
              index_dir'[INDEX] = sorted(processed)]_vars

\* C4: the index and the id-to-filename mapping a retrieve has loaded come
\* from one and the same build.
C4_LoadedFromOneBuild ==
    \A t \in Tasks : rq[t].pc = "llm" => rq[t].index = rq[t].mapping

\* C5: when a processing run is over, among the files whose extracted text
\* is the same exactly one is OK and every other one is DUPLICATE of it.
C5_OneOkPerText ==
    proc.pc = "done" =>
        \A f \in DOMAIN proc.text :
            proc.text[f] \notin {"", "unreadable"} =>
                \E g \in DOMAIN proc.text :
                    /\ proc.text[g] = proc.text[f]
                    /\ proc.results[g].status = "OK"
                    /\ \A h \in DOMAIN proc.text \ {g} :
                          proc.text[h] = proc.text[f] =>
                              /\ proc.results[h].status = "DUPLICATE"
                              /\ proc.results[h].duplicate_of = g

C6_Outputs == {RESULTS_JSON, RESULTS_CSV, SUMMARY, RANK_CONFIG}

\* C6: a step of a rank run that has not finished scoring (or that fails)
\* leaves the files of the collection as they were, and ranking_status is
\* "completed" only when the ranking results are all written.
C6_NothingWrittenBeforeScored ==
    /\ [][rank'.pc \in {"scoring", "failed"} => rank'.disk = rank.disk]_vars
    /\ [](meta.ranking_status = "completed" => C6_Outputs \subseteq DOMAIN rank.disk)

Final == {"completed", "failed"}

C7_Moves ==
    \A t \in DOMAIN active_tasks :
        active_tasks'[t].status # active_tasks[t].status =>
            <<active_tasks[t].status, active_tasks'[t].status>> \in
                {<<"queued", "processing">>, <<"processing", "completed">>,
                 <<"processing", "failed">>}

C7_OneMarker ==
    \A t \in DOMAIN active_tasks :
        LET q == active_tasks[t].queue
        IN  /\ \A i \in 1..(Len(q) - 1) : q[i] # None
            /\ (active_tasks[t].status \in Final) <=> (q # <<>> /\ Last(q) = None)

\* C7: the status of a task only moves queued -> processing -> completed
\* or failed; the queue holds exactly one end-of-stream marker, as its last
\* item, exactly when the status is final; and every task that started
\* reaches a final status.
C7_TaskReachesFinalStatus ==
    /\ []C7_OneMarker
    /\ [][C7_Moves]_vars
    /\ \A t \in Tasks :
          (t \in DOMAIN active_tasks /\ active_tasks[t].status = "processing")
              ~> (t \in DOMAIN active_tasks /\ active_tasks[t].status \in Final)

C7_Witness ==
    \E t \in DOMAIN active_tasks :
        /\ active_tasks[t].status = "completed"
        /\ active_tasks[t].queue = <<NthChunk(1), NthChunk(2), None>>

ConsumerErrors ==
    {ErrorChunk("Task timeout"), ErrorChunk("Stream timeout"), ErrorChunk("failed")}

IsChunk(item) == item # None /\ item \notin ConsumerErrors

Received(t) == SelectSeq(consumer[t].out, IsChunk)

InQueue(t) == SelectSeq(active_tasks[t].queue, IsChunk)

C8_InOrder ==
    \A t \in DOMAIN active_tasks :
        rq[t].llm # "idle" =>
            /\ Received(t) \o InQueue(t) = rq[t].llm_sent
            /\ consumer[t].chunk = None => Received(t) = rq[t].llm_sent

C8_CachedOnSuccess ==
    \A t \in Tasks :
        (rq[t].pc = "llm" /\ rq'[t].llm = "ended") =>
            LET fp == hash_query(rq[t].query)
            IN  IF rq'[t].llm_sent = <<>>
                THEN cache' = cache
                ELSE /\ fp \in DOMAIN cache'
                     /\ cache'[fp].response = Concat(Received(t) \o InQueue(t))

\* C8: every chunk the LLM has yielded is, before the next one is
\* requested, on the queue or with the consumer, in the order of production
\* and once; and when the answer ends without an error the cache holds the
\* concatenation of the forwarded chunks.
C8_StreamedInOrderAndCached ==
    /\ []C8_InOrder
    /\ [][C8_CachedOnSuccess]_vars

C8_Witness ==
    \E t \in DOMAIN active_tasks :
        /\ rq[t].llm = "ended"
        /\ consumer[t].pc = "closed"
        /\ consumer[t].out = <<NthChunk(1), NthChunk(2)>>
        /\ \E fp \in DOMAIN cache : cache[fp].response = NthChunk(1) \o NthChunk(2)

\* C9: once the client has abandoned the stream and the task has ended,
\* the task-table entry (and with it the queue) is released.
C9_ReleasedAfterAbandon ==
    \A t \in Tasks :
        (consumer[t].pc = "gone" /\ rq[t].pc = "done") =>
            t \notin DOMAIN active_tasks

\* C10: a stream that ended without having received the end-of-stream
\* marker ended with an error chunk: the timeout is reported, the stream
\* never just stops.
C10_TimeoutIsReported ==
    \A t \in Tasks :
        (consumer[t].pc = "closed" /\ consumer[t].chunk # None) =>
            /\ consumer[t].out # <<>>
            /\ StartsWithError(Last(consumer[t].out))
            /\ Range(consumer[t].out) \cap
                   {ErrorChunk("Stream timeout"), ErrorChunk("Task timeout")} # {}

C10_Witness ==
    \E t \in Tasks :
        /\ consumer[t].pc = "closed"
        /\ consumer[t].out = <<NthChunk(1), ErrorChunk("Stream timeout")>>

\* C11: a retrieve on a processed collection that has no index builds the
\* index and goes on to the search without an error chunk; no retrieve ever
\* reports a missing index or mapping; and the lazy-build step yields an
\* error chunk only when the build fails (no processed resume).
C11_LazyBuildBeforeSearch ==
    /\ [][\A t \in Tasks :
             (/\ rq[t].pc = "prepare" /\ rq'[t].pc # "prepare"
              /\ meta.processing_status = "completed"
              /\ INDEX \notin DOMAIN index_dir) =>
                 IF processed # {}
                 THEN /\ index_dir' = BuiltDir(index_dir, sorted(processed))
                      /\ rq'[t].pc = "cache"
                      /\ NewItems(t) = {}
                 ELSE /\ index_dir' = index_dir
                      /\ NewItems(t) = {ErrorChunk("no resumes"), None}]_vars
    /\ [](\A t \in DOMAIN active_tasks :
             Range(active_tasks[t].queue) \cap
                 {ErrorChunk("no index"), ErrorChunk("no mapping")} = {})

C11_Witness ==
    \E t \in Tasks :
        /\ rq[t].pc = "llm"
        /\ rq[t].index = sorted(Files)
        /\ rq[t].mapping = sorted(Files)

\* C12: on a collection with no processed profile a rank run fails, a
\* retrieve that has ended has produced one "Error:" chunk and the end
\* marker, and there are no ranking results, no ranking_status "completed",
\* no index and no cache entry.
C12_EmptyCorpusLeavesNothing ==
    /\ [][\A jd_text \in JdTexts :
             (RankBegin(jd_text) /\ processed = {}) => rank'.pc = "failed"]_vars
    /\ [](processed = {} =>
             /\ rank.pc \in {"idle", "failed"}
             /\ C6_Outputs \cap DOMAIN rank.disk = {}
             /\ meta.ranking_status # "completed"
             /\ index_dir = <<>>
             /\ cache = <<>>
             /\ \A t \in DOMAIN active_tasks :
                   active_tasks[t].status = "completed" =>
                       /\ Len(active_tasks[t].queue) = 2
                       /\ StartsWithError(active_tasks[t].queue[1])
                       /\ active_tasks[t].queue[2] = None)

C12_Witness ==
    /\ processed = {}
    /\ rank.pc = "failed"
    /\ JD \in DOMAIN rank.disk
    /\ \E t \in DOMAIN active_tasks :
          active_tasks[t].queue = <<ErrorChunk("no resumes"), None>>

\* the final score of profile f, from its two scores
FinalOf(f) == combine_scores(batch.tfidf[f], batch.skill[f])

\* the number of entries rank keeps of n scored profiles
KeptOf(n) ==
    IF batch.top_k = <<>> THEN n
    ELSE IF batch.top_k[1] <= n THEN batch.top_k[1] ELSE n

\* C13: the final score of every scored profile is 0.7 * lexical + 0.3 *
\* skill clamped into [0,1], and every final score that rank writes lies in
\* [0,1].
C13_FinalScoreClamped ==
    /\ batch.pc \in {"scoring", "sorted"} =>
          \A i \in DOMAIN batch.results :
              LET r == batch.results[i]
                  w == (7 * r.tfidf_score_raw + 3 * r.skill_score_raw) \div 10
              IN  /\ r.tfidf_score_raw = batch.tfidf[r.filename]
                  /\ r.skill_score_raw = batch.skill[r.filename]
                  /\ r.final_score_raw =
                         IF w < 0 THEN 0 ELSE IF w > ONE THEN ONE ELSE w
    /\ batch.pc \in {"ranked", "done"} =>
          \A i \in DOMAIN batch.results :
              batch.results[i].final_score \in 0..ONE

C13_Witness ==
    /\ batch.pc = "done"
    /\ \E i, j \in DOMAIN batch.written :
          /\ batch.tfidf[batch.written[i].filename] > ONE
          /\ batch.written[i].final_score = ONE
          /\ batch.tfidf[batch.written[j].filename] < 0
          /\ batch.written[j].final_score = 0

\* C16: the written results are in the order final score descending, then
\* lexical score descending, then filename ascending, and a second run on
\* the same profiles and job description writes the same results.
C16_TotalOrderDeterministic ==
    batch.pc = "done" =>
        /\ \A i, j \in DOMAIN batch.written :
              i < j =>
                  LET a == batch.written[i].filename
                      b == batch.written[j].filename
                  IN  \/ FinalOf(a) > FinalOf(b)
                      \/ /\ FinalOf(a) = FinalOf(b)
                         /\ batch.tfidf[a] > batch.tfidf[b]
                      \/ /\ FinalOf(a) = FinalOf(b)
                         /\ batch.tfidf[a] = batch.tfidf[b]
                         /\ a < b
        /\ batch.runs > 1 => batch.written = batch.first

C16_Witness ==
    /\ batch.pc = "done"
    /\ batch.runs = 2
    /\ \E a, b, c \in Profiles :
          /\ a < b
          /\ FinalOf(a) = FinalOf(b) /\ FinalOf(b) = FinalOf(c)
          /\ batch.tfidf[a] = batch.tfidf[b]
          /\ batch.tfidf[b] > batch.tfidf[c]
          /\ c < a
          /\ {a, b, c} \subseteq {batch.written[i].filename : i \in DOMAIN batch.written}

\* C17: with top_k = k the stored result is the first k entries of the full
\* ordering when k <= |P| and all |P| entries otherwise, the ranks are
\* 1, 2, ... and ranked_count is the number of stored entries.
C17_TopKEntries ==
    /\ [][(batch.pc = "sorted" /\ batch'.pc = "ranked") =>
             batch'.results =
                 SubSeq(ranked(batch.results), 1, KeptOf(Len(batch.results)))]_vars
    /\ [](batch.pc = "done" =>
             /\ Len(batch.written) = KeptOf(Len(batch.files))
             /\ \A i \in DOMAIN batch.written : batch.written[i].rank = i
             /\ batch.ranked_count = Len(batch.written))

C17_Witness ==
    /\ batch.pc = "done"
    /\ batch.top_k = <<2>>
    /\ Len(batch.files) = NProfiles
    /\ Len(batch.written) = 2
    /\ batch.written[2].rank = 2

\* what the claims about retrieval say of a profile f, from the inputs of
\* the call: whether prior ranking is used, the prior score and rank of f
\* (0 and 999 without one), its skill overlap and its combined score
HasPrior == retr.use_ranking /\ retr.ranking_file # <<>>

\* the semantic similarity of profile f: 1 / (1 + distance)
SimOf(f) == (ONE * DistScale) \div (DistScale + retr.dists[f])

PriorEntries(f) ==
    IF HasPrior
    THEN {e \in Range(retr.ranking_file[1]) : e.filename = f}
    ELSE {}

PriorScore(f) ==
    IF PriorEntries(f) = {} THEN 0
    ELSE (CHOOSE e \in PriorEntries(f) : TRUE).final_score

PriorRank(f) ==
    IF PriorEntries(f) = {} THEN 999
    ELSE (CHOOSE e \in PriorEntries(f) : TRUE).rank

SkillShare(f) ==
    IF retr.query_skills = {} THEN 0
    ELSE (Cardinality(retr.query_skills \cap SkillsOf(f)) * ONE)
             \div Cardinality(retr.query_skills)

ExpectedCombined(f) ==
    IF HasPrior
    THEN (4 * SimOf(f) + 3 * PriorScore(f) + 3 * SkillShare(f)) \div 10
    ELSE (6 * SimOf(f) + 4 * SkillShare(f)) \div 10

PassesFilters(f) ==
    /\ retr.filters.min_rank_position # <<>> =>
           PriorRank(f) <= retr.filters.min_rank_position[1]
    /\ retr.filters.max_rank_position # <<>> =>
           PriorRank(f) >= retr.filters.max_rank_position[1]
    /\ retr.filters.min_ranking_score # <<>> =>
           ExpectedCombined(f) >= retr.filters.min_ranking_score[1]
    /\ retr.filters.required_skills # {} =>
           (retr.filters.required_skills \cap SkillsOf(f)) # {}

Returned == {retr.result[i].filename : i \in DOMAIN retr.result}

\* C14: the combined score of every candidate that retrieval returns lies
\* in [0,1], whatever final_score the stored ranking results hold.
C14_CombinedInUnitRange ==
    retr.pc = "done" =>
        \A i \in DOMAIN retr.result : retr.result[i].combined_score \in 0..ONE

\* C15: the combined score of every candidate is 0.4 * semantic + 0.3 *
\* prior batch score + 0.3 * skill overlap when prior ranking is used, and
\* 0.6 * semantic + 0.4 * skill overlap when it is not (the returned value
\* is rounded to four decimals).
C15_CombinedFormula ==
    /\ \A i \in DOMAIN retr.candidates :
          retr.candidates[i].combined_score =
              round4(ExpectedCombined(retr.candidates[i].filename))
    /\ \A i \in DOMAIN retr.result :
          retr.result[i].combined_score =
              round4(ExpectedCombined(retr.result[i].filename))

C15_Witness ==
    /\ retr.pc = "done"
    /\ HasPrior
    /\ \E i \in DOMAIN retr.result :
          /\ retr.result[i].ranking_score = <<ONE \div 2>>
          /\ retr.result[i].skill_score = ONE \div 2
          /\ SimOf(retr.result[i].filename) = ONE \div 3
          /\ retr.result[i].combined_score =
                 round4((4 * (ONE \div 3) + 3 * (ONE \div 2) + 3 * (ONE \div 2)) \div 10)

\* C18: every returned candidate has a prior rank (999 without one) that is
\* at most min_rank_position and at least max_rank_position, for each of
\* the two bounds that is set.
C18_RankBoundsHold ==
    \A f \in Returned \cup {retr.candidates[i].filename : i \in DOMAIN retr.candidates} :
        /\ retr.filters.min_rank_position # <<>> =>
               PriorRank(f) <= retr.filters.min_rank_position[1]
        /\ retr.filters.max_rank_position # <<>> =>
               PriorRank(f) >= retr.filters.max_rank_position[1]

C18_Witness ==
    /\ retr.pc = "done"
    /\ HasPrior
    /\ retr.filters.max_rank_position = <<2>>
    /\ \E i, j \in DOMAIN retr.result :
          /\ retr.result[i].rank_position = 999
          /\ retr.result[j].rank_position = 2
    /\ \E f \in Profiles : PriorRank(f) = 1 /\ f \notin Returned

\* C19: every returned candidate satisfies all the filters that are set:
\* its combined score is at least min_ranking_score and its skills
\* intersect required_skills, so that with required_skills = {s} a profile
\* without s is never returned.
C19_FiltersConjunctive ==
    \A f \in Returned \cup {retr.candidates[i].filename : i \in DOMAIN retr.candidates} :
        /\ PassesFilters(f)
        /\ \A sk \in retr.filters.required_skills :
               retr.filters.required_skills = {sk} => sk \in SkillsOf(f)

C19_Witness ==
    /\ retr.pc = "done"
    /\ retr.filters.required_skills = {"sql"}
    /\ retr.filters.min_ranking_score = <<ONE \div 2>>
    /\ Returned # {}
    /\ \E f \in Profiles \ Returned :
          "sql" \notin SkillsOf(f) /\ ExpectedCombined(f) >= ONE \div 2

\* C20: the result has at most top_k candidates, in non-increasing order of
\* combined score; they pass the filters, and every profile that passes
\* the filters and is not returned scores no higher than any returned one,
\* which happens only when top_k candidates are returned.
C20_TopKAfterFilterAndSort ==
    retr.pc = "done" =>
        /\ Len(retr.result) = Min(retr.top_k, Cardinality({f \in Profiles : PassesFilters(f)}))
        /\ Cardinality(Returned) = Len(retr.result)
        /\ \A i, j \in DOMAIN retr.result :
              i < j => retr.result[i].combined_score >= retr.result[j].combined_score
        /\ \A f \in Returned : PassesFilters(f)
        /\ \A f \in {g \in Profiles : PassesFilters(g)} \ Returned :
              \A i \in DOMAIN retr.result :
                  round4(ExpectedCombined(f)) <= retr.result[i].combined_score

C20_Witness ==
    /\ retr.pc = "done"
    /\ Len(retr.candidates) > retr.top_k
    /\ retr.candidates[1].filename \notin Returned
    /\ \E i \in DOMAIN retr.candidates :
          retr.candidates[i].combined_score > retr.candidates[1].combined_score

\* the filters of the retrieve of task t eliminate every resume of the
\* mapping it is about to load
AllEliminated(t) ==
    /\ MAPPING \in DOMAIN index_dir
    /\ rq[t].required # {}
    /\ \A i \in DOMAIN index_dir[MAPPING] :
          rq[t].required \cap resume_skills(index_dir[MAPPING][i], processed) = {}

\* C21: when the filters eliminate every shortlisted candidate the retrieve
\* ends normally: the step that finds the empty list puts one chunk that
\* does not start with "Error:" and the end marker on the queue, sets the
\* status to completed, calls no LLM and leaves the cache as it was.
C21_NoCandidatesIsNotAnError ==
    [][\A t \in Tasks :
          (/\ rq[t].pc = "load_mapping" /\ rq'[t].pc # "load_mapping"
           /\ AllEliminated(t)) =>
              /\ rq'[t].pc = "done"
              /\ rq'[t].llm = "idle"
              /\ active_tasks'[t].status = "completed"
              /\ \E chunk \in {<<"No candidates">>} :
                    /\ ~StartsWithError(chunk)
                    /\ active_tasks'[t].queue =
                           active_tasks[t].queue \o <<chunk, None>>
              /\ cache' = cache]_vars

C21_Witness ==
    \E t \in DOMAIN active_tasks :
        /\ rq[t].pc = "done"
        /\ rq[t].llm = "idle"
        /\ index_dir # <<>>
        /\ active_tasks[t].status = "completed"
        /\ active_tasks[t].queue = <<<<"No candidates">>, None>>
        /\ cache = <<>>

\* C22: the search returns min(50, vector_count) distinct vector ids, the
\* nearest ones, in descending order of similarity, each similarity being
\* 1 / (1 + distance) and in (0,1]; and every candidate comes from a hit
\* whose id is in the loaded mapping.
C22_SearchBounded ==
    /\ [][(retr.pc = "start" /\ retr'.pc = "rerank") =>
             LET hits == retr'.hits
                 sims == retr'.sims
                 n == Len(retr.dists)
             IN  /\ Len(hits) = Min(50, n)
                 /\ Len(sims) = Len(hits)
                 /\ \A i \in DOMAIN hits : hits[i] \in 1..n
                 /\ \A i, j \in DOMAIN hits : i # j => hits[i] # hits[j]
                 /\ \A i \in DOMAIN hits :
                       /\ sims[i] = SimOf(hits[i])
                       /\ sims[i] > 0 /\ sims[i] <= ONE
                 /\ \A i, j \in DOMAIN hits : i < j => sims[i] >= sims[j]
                 /\ \A v \in (1..n) \ Range(hits) :
                       \A i \in DOMAIN hits : SimOf(v) <= sims[i]]_vars
    /\ [](retr.pc \in {"rerank", "done"} =>
             /\ \A i \in DOMAIN retr.candidates :
                   \E v \in DOMAIN retr.resume_mapping \cap (1..Len(retr.dists)) :
                       retr.resume_mapping[v] = retr.candidates[i].filename
             /\ Len(retr.candidates) <=
                    Cardinality(DOMAIN retr.resume_mapping \cap (1..Len(retr.dists))))

C22_Witness ==
    /\ retr.pc = "done"
    /\ Len(retr.dists) = 51
    /\ \E i, j \in DOMAIN retr.dists : retr.dists[i] < retr.dists[j]
    /\ Len(retr.candidates) = 50
    /\ DOMAIN retr.resume_mapping = 1..51

\* the cache directory of the collection of task t holds an answer for the
\* text of its query that is younger than the TTL
FreshEntry(t) ==
    LET c == CacheOf(rq[t].collection)
        h == hash_query(rq[t].query)
    IN  h \in DOMAIN c /\ now - c[h].cached_at < TTL

\* C23: a retrieve whose collection holds a cached answer for its query
\* text that is within the TTL returns that answer as a single chunk, with
\* no index load and no LLM call, whatever its top_k, filters and
\* include_context; a retrieve whose collection holds no answer for its
\* query goes on to the search whatever the cache of the other collection
\* holds; and an answer is cached only in the collection of its retrieve.
C23_CacheKeyedByQueryInCollection ==
    /\ [][\A t \in Tasks :
             (rq[t].pc = "cache" /\ rq'[t].pc # "cache") =>
                 LET c == CacheOf(rq[t].collection)
                     h == hash_query(rq[t].query)
                 IN  /\ FreshEntry(t) =>
                           /\ rq'[t].pc = "done"
                           /\ rq'[t].llm = "idle"
                           /\ rq'[t].index = <<>>
                           /\ active_tasks'[t].status = "completed"
                           /\ active_tasks'[t].queue =
                                  active_tasks[t].queue \o <<c[h].response, None>>
                     /\ h \notin DOMAIN c =>
                           /\ rq'[t].pc = "load_index"
                           /\ NewItems(t) = {}]_vars
    /\ [][\A t \in Tasks :
             (rq[t].pc = "llm" /\ rq'[t].pc # "llm") =>
                 IF rq[t].collection = "A" THEN other_cache' = other_cache
                 ELSE cache' = cache]_vars

C23_Witness ==
    \E t1, t2 \in DOMAIN active_tasks :
        /\ rq[t1].llm = "ended" /\ rq[t1].collection = "A"
        /\ rq[t1].top_k = 5 /\ rq[t1].include_context
        /\ rq[t2].pc = "done" /\ rq[t2].llm = "idle" /\ rq[t2].collection = "A"
        /\ rq[t2].top_k = 1 /\ ~rq[t2].include_context
        /\ active_tasks[t2].queue = <<NthChunk(1) \o NthChunk(2), None>>
        /\ now = 1
        /\ other_cache = <<>>

C24_Outputs ==
    {RESULTS_JSON, RESULTS_CSV, SUMMARY, VECTORIZER, MATRIX, RESUME_INDEX}

\* C24: after every rank run that succeeded, ranking_results.json,
\* ranking_results.csv, ranking_summary.json, tfidf_vectorizer.pkl,
\* resume_matrix.npz and resume_index.json are on disk.
C24_ArtifactsOnDisk ==
    rank.pc = "done" => C24_Outputs \subseteq DOMAIN rank.disk

\* C25: a rank request on a collection with no processed resume is
\* rejected with status 400 and a detail that mentions "processing first";
\* it writes no file and no ranking status, and no run starts.
C25_RankWithoutProcessingRejected ==
    /\ [][\A jd_text \in JdTexts \ {""} :
             (rank_collection_endpoint(jd_text) /\ processed = {}) =>
                 /\ rank'.rejected # <<>>
                 /\ rank'.rejected[1].status_code = 400
                 /\ Contains(lower(rank'.rejected[1].detail),
                             <<"processing", "first">>)
                 /\ rank'.disk = rank.disk
                 /\ rank'.pc = rank.pc
                 /\ meta' = meta]_vars
    /\ [](processed = {} =>
             /\ rank.disk = <<>>
             /\ rank.pc = "idle"
             /\ meta.ranking_status # "completed")

C25_Witness ==
    /\ processed = {}
    /\ rank.runs > 0
    /\ rank.rejected # <<>>
    /\ rank.rejected[1].status_code = 400
    /\ rank.disk = <<>>
    /\ meta.ranking_status = "absent"

\* C26: once a process run and a rank run have both completed, the
\* metadata holds processing_status = "completed" and ranking_status =
\* "completed".
C26_BothStatusesKept ==
    (proc.pc = "done" /\ rank.pc = "done") =>
        /\ meta.processing_status = "completed"
        /\ meta.ranking_status = "completed"

\* C27: ranking never ends in an error over a degenerate vocabulary, and
\* when no section has a model the lexical score of every profile is its
\* cosine similarity under one whole-document TF-IDF model
C27_FallsBackToWholeDocument ==
    /\ batch.pc # "error"
    /\ (batch.pc \in {"lexical", "done"} /\ batch.vectorizers = {}) =>
           \A f \in Profiles : batch.tfidf[f] = batch.whole[f]

ProfileSkills(f) == row_skills(batch.entities[f], SkillsOf(f))

Alphabetical(list) ==
    \A i, j \in DOMAIN list : i < j => SkillPos(list[i]) < SkillPos(list[j])

\* C28: in every result matched_skills lists query_skills \cap
\* profile_skills and missing_skills lists query_skills \ profile_skills,
\* each in alphabetical order without duplicates; the two lists are disjoint
\* and together they are the skills of the query
C28_ExplainabilityPartition ==
    batch.pc \in {"lexical", "done"} =>
        \A i \in DOMAIN batch.results :
            LET r == batch.results[i]
                matched == r.explainability.matched_skills
                missing == r.explainability.missing_skills
            IN  /\ Items(matched) = batch.jd_skills \cap ProfileSkills(r.filename)
                /\ Items(missing) = batch.jd_skills \ ProfileSkills(r.filename)
                /\ Len(matched) = Cardinality(Items(matched))
                /\ Len(missing) = Cardinality(Items(missing))
                /\ Alphabetical(matched)
                /\ Alphabetical(missing)
                /\ Items(matched) \cap Items(missing) = {}
                /\ Items(matched) \cup Items(missing) = batch.jd_skills

C28_Witness ==
    /\ batch.pc = "done"
    /\ \E i \in DOMAIN batch.results :
           /\ Len(batch.results[i].explainability.matched_skills) >= 1
           /\ Len(batch.results[i].explainability.missing_skills) >= 2

SkillRatio(query_skills, skills) ==
    IF query_skills = {} THEN 0
    ELSE (Cardinality(query_skills \cap skills) * ONE) \div Cardinality(query_skills)

\* C29: the skill score of a profile is 0 when the query has no skills, in
\* the batch results and in retrieval, and otherwise it is
\* |query_skills \cap profile_skills| / |query_skills|; it lies in [0, 1]
C29_SkillScore ==
    /\ batch.pc \in {"lexical", "done"} =>
           \A i \in DOMAIN batch.results :
               LET r == batch.results[i]
               IN  /\ r.skill_score_raw =
                          SkillRatio(batch.jd_skills, ProfileSkills(r.filename))
                   /\ r.skill_score_raw >= 0
                   /\ r.skill_score_raw <= ONE
                   /\ batch.jd_skills = {} => r.skill_score_raw = 0
    /\ batch.pc = "done" =>
           \A f \in Profiles :
               /\ batch.retrieved[f] = SkillRatio(batch.jd_skills, SkillsOf(f))
               /\ batch.retrieved[f] >= 0
               /\ batch.retrieved[f] <= ONE
               /\ batch.jd_skills = {} => batch.retrieved[f] = 0

C29_Witness ==
    /\ batch.pc = "done"
    /\ batch.jd_skills = {}
    /\ Len(batch.results) = NProfiles
    /\ \A f \in Profiles : batch.retrieved[f] = 0

Statuses == {"OK", "FAILED", "EMPTY", "DUPLICATE"}

\* C30: when a processing run is over the four counters of the validation
\* report add up to total_files, the report lists every input file exactly
\* once with one of the four statuses, and the duplicate report has as many
\* entries as the duplicate counter says; processing_status is "completed"
\* only when both reports have been written
C30_ReportsAccountForEveryFile ==
    /\ proc.pc = "done" =>
           LET report == proc.validation_report[1]
               dups == proc.duplicate_report[1]
           IN  /\ report.ok + report.failed + report.empty + report.duplicate
                      = report.total_files
               /\ report.total_files = Len(proc.text)
               /\ \A f \in DOMAIN proc.text :
                      Cardinality({i \in DOMAIN report.files :
                                      report.files[i].filename = f}) = 1
               /\ Len(report.files) = Len(proc.text)
               /\ \A i \in DOMAIN report.files :
                      report.files[i].status \in Statuses
               /\ Len(dups) = report.duplicate
    /\ meta.processing_status = "completed" =>
           /\ proc.validation_report # <<>>
           /\ proc.duplicate_report # <<>>

C30_Witness ==
    /\ proc.pc = "done"
    /\ meta.processing_status = "completed"
    /\ proc.validation_report[1].total_files = NRaw
    /\ proc.validation_report[1].ok >= 1
    /\ proc.validation_report[1].duplicate >= 1
    /\ proc.validation_report[1].empty + proc.validation_report[1].failed >= 1
    /\ Len(proc.duplicate_report[1]) >= 1

====
